---- MODULE Spec2Model ----
(***************************************************************************)
(* Model of the mypy language-server adapter (bundled/tool/lsp_server.py   *)
(* and bundled/tool/lsp_utils.py): the document handlers didOpen, didSave  *)
(* and didClose, the version probe, the tool invocation, the parser of the *)
(* tool's output and the routing of the diagnostics to the publish sink.   *)
(*                                                                         *)
(* A file-system path is a sequence of segments (<<"w1", "a.py">> is       *)
(* /w1/a.py), a Python list is a sequence, a dict is a function (or, where *)
(* the insertion order matters, a sequence of key/value records), None is  *)
(* the value None below, a missing regex group is NoStr (text) or NoInt    *)
(* (a number n that is present is <<n>>).                                  *)
(***************************************************************************)
EXTENDS Integers, Sequences, FiniteSets, TLC

\* ------------------------------------------------------------------------
\* Bounds of the model
\* ------------------------------------------------------------------------
\* longest tool output, in lines
MaxLines == 2

\* ------------------------------------------------------------------------
\* Values
\* ------------------------------------------------------------------------
None == [none |-> TRUE]
NoStr == ""
NoInt == <<>>

\* ------------------------------------------------------------------------
\* The file system the server runs on
\* ------------------------------------------------------------------------
Root1 == <<"w1">>
PathA == <<"w1", "a.py">>
\* /w1/la.py is a symbolic link to /w1/a.py
PathLA == <<"w1", "la.py">>
PathB == <<"w1", "b.py">>
PathBDot == <<"w1", ".", "b.py">>
PathGen == <<"w1", "gen.py">>
PathNb == <<"w1", "nb.ipynb">>
\* a module of the virtual environment /w1/venv
PathStd == <<"w1", "venv", "os.py">>
\* a second workspace folder and a file of it
Root2 == <<"w2">>
PathC == <<"w2", "c.py">>

IsPrefix(s, t) == Len(s) <= Len(t) /\ SubSeq(t, 1, Len(s)) = s

Front(p) == SubSeq(p, 1, Len(p) - 1)

\* pathlib.Path(p): the constructor drops the "." segments
RECURSIVE PurePath(_)
PurePath(p) ==
    IF p = <<>> THEN <<>>
    ELSE IF Head(p) = "." THEN PurePath(Tail(p))
    ELSE <<Head(p)>> \o PurePath(Tail(p))

\* pathlib.Path.parent
Parent(p) == IF p = <<>> THEN <<>> ELSE Front(p)

\* pathlib.Path(p).resolve(): normal form with the symbolic links followed
Resolve(p) == IF PurePath(p) = PathLA THEN PathA ELSE PurePath(p)

\* os.fspath / str of a path
RECURSIVE fspath(_)
fspath(p) == IF p = <<>> THEN "" ELSE "/" \o Head(p) \o fspath(Tail(p))

\* lsp_utils._site_paths, resolved
site_paths == {<<"w1", "venv">>}

\* lsp_utils.is_same_path
is_same_path(file_path1, file_path2) == PurePath(file_path1) = PurePath(file_path2)

\* lsp_utils.normalize_path
normalize_path(file_path) == Resolve(file_path)

\* is_stdlib_file with the prefix test replaced by an equality
is_stdlib_file_eq(file_path) ==
    LET normalized_path == Resolve(file_path)
    IN  \E path \in site_paths : path = normalized_path

\* lsp_utils.is_stdlib_file (startswith taken segment-wise)
is_stdlib_file(file_path) ==
    LET normalized_path == Resolve(file_path)
    IN  \E path \in site_paths : IsPrefix(path, normalized_path)

\* lsp_utils.absolute_path: absolute form of a reported path, links not followed
absolute_path(file_path) == PurePath(file_path)

\* lsp_utils.is_match: a pattern is a list of literal segments; a relative
\* pattern matches the path from the right (so also the bare file name), a
\* rooted pattern only the whole path.
is_match(patterns, file_path) ==
    \E i \in 1..Len(patterns) :
        LET pat == patterns[i].glob
            p == PurePath(file_path)
        IN  IF patterns[i].rooted
            THEN p = pat
            ELSE Len(pat) <= Len(p) /\ SubSeq(p, Len(p) - Len(pat) + 1, Len(p)) = pat

\* ------------------------------------------------------------------------
\* Documents and URIs
\* ------------------------------------------------------------------------
\* pygls uris.from_fs_path
from_fs_path(p) == [scheme |-> "file", path |-> p]

NotebookCellUri == [scheme |-> "vscode-notebook-cell", path |-> PathNb]

\* a pygls Document: its uri, and the path derived from it
Document(uri) == [uri |-> uri, path |-> uri.path]

\* the documents the client opens
Documents ==
    {Document(from_fs_path(p)) : p \in {PathA, PathLA, PathGen, PathStd}}
        \cup {Document(NotebookCellUri)}

\* the documents of a workspace folder
FolderDocuments(root) ==
    IF root = Root1 THEN Documents ELSE {Document(from_fs_path(PathC))}

\* the notebook test made on the path of the document instead of its uri
IsNotebookCell_path(document) == IsPrefix(<<"vscode-notebook-cell">>, document.path)

\* str(document.uri).startswith("vscode-notebook-cell")
IsNotebookCell(document) == document.uri.scheme = "vscode-notebook-cell"

\* ------------------------------------------------------------------------
\* Settings
\* ------------------------------------------------------------------------
ReportingScopes == {"file", "workspace"}

\* sys.executable
SysExecutable == "python"

\* the severity map of the default settings
DefaultSeverity == [error |-> "Error", note |-> "Information"]

\* the cwd setting: a variable form or a literal directory
CwdWorkspaceFolder == [var |-> "${workspaceFolder}", dir |-> <<>>]
CwdFileDirname == [var |-> "${fileDirname}", dir |-> <<>>]
CwdNearestConfig == [var |-> "${nearestConfig}", dir |-> <<>>]
CwdLiteral(d) == [var |-> "", dir |-> d]

\* one entry of initializationOptions["settings"], as the client sends it
ClientSetting(root, scope, daemon, patterns) ==
    [workspace |-> from_fs_path(root),
     cwd |-> CwdWorkspaceFolder,
     path |-> <<>>,
     interpreter |-> <<SysExecutable>>,
     args |-> <<>>,
     severity |-> DefaultSeverity,
     ignorePatterns |-> patterns,
     importStrategy |-> "useBundled",
     extraPaths |-> <<>>,
     reportingScope |-> scope,
     preferDaemon |-> daemon,
     daemonStatusFile |-> NoStr]

GenPattern == [rooted |-> FALSE, glob |-> <<"gen.py">>]

\* the settings lists a client may send with initialize: one workspace,
\* /w1, which ignores gen.py and holds a virtual environment
ClientSettings ==
    {<<ClientSetting(Root1, s1, d1, <<GenPattern>>)>> :
        s1 \in ReportingScopes, d1 \in BOOLEAN}

\* a dict as a function: lookup with default
DictGet(d, k, default) == IF k \in DOMAIN d THEN d[k] ELSE default

\* a dict with one entry added or replaced
DictPut(d, k, v) == [x \in (DOMAIN d) \cup {k} |-> IF x = k THEN v ELSE d[x]]

EmptyDict == [x \in {} |-> None]

\* _get_global_defaults
get_global_defaults(GS) ==
    [path |-> DictGet(GS, "path", <<>>),
     interpreter |-> DictGet(GS, "interpreter", <<SysExecutable>>),
     args |-> DictGet(GS, "args", <<>>),
     severity |-> DictGet(GS, "severity", DefaultSeverity),
     ignorePatterns |-> DictGet(GS, "ignorePatterns", <<>>),
     importStrategy |-> DictGet(GS, "importStrategy", "useBundled"),
     showNotifications |-> DictGet(GS, "showNotifications", "off"),
     extraPaths |-> DictGet(GS, "extraPaths", <<>>),
     reportingScope |-> DictGet(GS, "reportingScope", "file"),
     preferDaemon |-> DictGet(GS, "preferDaemon", TRUE),
     daemonStatusFile |-> DictGet(GS, "daemonStatusFile", NoStr)]

\* the record {"cwd": key, "workspaceFS": key, "workspace": uri, **defaults}
AdHocSettings(key, GS) ==
    [x \in {"cwd", "workspaceFS", "workspace"} \cup DOMAIN get_global_defaults(GS) |->
        IF x = "cwd" THEN CwdLiteral(key)
        ELSE IF x = "workspaceFS" THEN key
        ELSE IF x = "workspace" THEN from_fs_path(key)
        ELSE get_global_defaults(GS)[x]]

\* {**setting, "workspaceFS": key}
WithWorkspaceFS(setting, key) ==
    [x \in (DOMAIN setting) \cup {"workspaceFS"} |->
        IF x = "workspaceFS" THEN key ELSE setting[x]]

\* _update_workspace_settings: the dict after the call. The dict keeps its
\* insertion order in WS.order.
RECURSIVE update_workspace_settings(_, _)
update_workspace_settings(WS, settings) ==
    IF settings = <<>> THEN WS
    ELSE LET setting == Head(settings)
             key == normalize_path(setting.workspace.path)
             put == [order |-> IF key \in DOMAIN WS.map THEN WS.order
                               ELSE Append(WS.order, key),
                     map |-> DictPut(WS.map, key, WithWorkspaceFS(setting, key))]
         IN  update_workspace_settings(put, Tail(settings))

\* list(WORKSPACE_SETTINGS.values())
SettingValues(WS) == [i \in 1..Len(WS.order) |-> WS.map[WS.order[i]]]

\* the while loop of _get_document_key: <<key>>, or <<>> for None
RECURSIVE WalkToWorkspace(_, _)
WalkToWorkspace(WS, document_workspace) ==
    IF document_workspace = Parent(document_workspace) THEN <<>>
    ELSE LET norm_path == normalize_path(document_workspace)
         IN  IF norm_path \in {WS.map[k].workspaceFS : k \in DOMAIN WS.map}
             THEN <<norm_path>>
             ELSE WalkToWorkspace(WS, Parent(document_workspace))

\* _get_document_key: <<key>>, or <<>> for None
get_document_key(WS, document) ==
    IF WS.order # <<>> THEN WalkToWorkspace(WS, PurePath(document.path)) ELSE <<>>

\* _get_settings_by_document
get_settings_by_document(WS, GS, document) ==
    LET key == get_document_key(WS, document)
    IN  IF key = <<>>
        THEN AdHocSettings(normalize_path(Parent(PurePath(document.path))), GS)
        ELSE WS.map[key[1]]

\* ------------------------------------------------------------------------
\* The external tool (the environment of the server)
\* ------------------------------------------------------------------------
TOOL_DISPLAY == "Mypy"

TOOL_ARGS ==
    <<"--no-color-output", "--no-error-summary", "--show-absolute-path",
      "--show-column-numbers", "--show-error-codes", "--no-pretty">>

\* lsp_utils.RunResult
RunResult(stdout, stderr, exit_code) ==
    [stdout |-> stdout, stderr |-> stderr, exit_code |-> exit_code]

\* what subprocess.run does instead of returning: the executable or the
\* working directory does not exist
OSError == [raises |-> "OSError"]

Contains(seq, x) == \E i \in 1..Len(seq) : seq[i] = x

\* the program name the tool prints first when asked for its version
ToolBanner(argv) ==
    IF Contains(argv, "mypy.dmypy") \/ Contains(argv, "dmypy") THEN "dmypy" ELSE "mypy"

\* the version strings a tool may print, and text that is no version
VersionStrings == {"0.990", "1.4.0"}
NotAVersion == "unknown"

\* packaging.version.parse: <<major, minor>>, or <<>> for InvalidVersion
parse_version(version_str) ==
    IF version_str = "0.990" THEN <<0, 990>>
    ELSE IF version_str = "1.4.0" THEN <<1, 4>>
    ELSE <<>>

\* the answers of the tool to `--version`: it cannot be started, prints
\* nothing, prints a banner without a version number, or prints a version.
\* A line of this output is the list of its space-separated words.
ProbeReplies(argv) ==
    {OSError, RunResult(<<>>, "crash", 2),
     RunResult(<< <<ToolBanner(argv), NotAVersion>> >>, "", 0)}
        \cup {RunResult(<< <<ToolBanner(argv), v, "(compiled: yes)">> >>, "", 0) :
                v \in VersionStrings}

\* MypyInfo
MypyInfo(version, is_daemon) == [version |-> version, is_daemon |-> is_daemon]

\* one execution of the tool, as the server starts it
Invocation(argv, cwd) == [argv |-> argv, cwd |-> cwd]

\* lsp_utils.run_path under the reply the environment gives
run_path(argv, cwd, reply) ==
    [raised |-> reply = OSError,
     result |-> reply,
     invoked |-> <<Invocation(argv, cwd)>>]

\* directories holding a pyproject.toml or mypy.ini
ConfigDirs == {Root1, <<"w1", "pkg">>}

\* get_cwd does not return: the while loop of lines 665-675 goes on for ever
NeverReturns == <<"", "get_cwd never returns">>

\* the ${nearestConfig} loop of get_cwd
RECURSIVE NearestConfig(_, _)
NearestConfig(workspaceFolder, candidate) ==
    IF ~IsPrefix(workspaceFolder, candidate) THEN workspaceFolder
    ELSE IF candidate \in ConfigDirs THEN candidate
    ELSE IF candidate = Parent(candidate) THEN NeverReturns
    ELSE NearestConfig(workspaceFolder, Parent(candidate))

\* get_cwd; has_document is FALSE when the document argument is None
get_cwd(settings, has_document, document) ==
    IF ~has_document THEN settings.workspaceFS
    ELSE IF settings.cwd.var = "${workspaceFolder}" THEN settings.workspaceFS
    ELSE IF settings.cwd.var = "${fileDirname}" THEN Parent(PurePath(document.path))
    ELSE IF settings.cwd.var = "${nearestConfig}"
         THEN NearestConfig(PurePath(settings.workspaceFS), Parent(PurePath(document.path)))
    ELSE settings.cwd.dir

\* _run_unidentified_tool running module mypy whatever preferDaemon says
run_unidentified_tool_module_mypy(extra_args, settings, reply) ==
    LET cwd == get_cwd(settings, FALSE, None)
        argv0 == IF settings.path # <<>> THEN settings.path
                 ELSE (IF settings.interpreter # <<>> THEN settings.interpreter
                       ELSE <<SysExecutable>>)
                      \o <<"-m", "mypy">>
        argv == argv0 \o extra_args
    IN  run_path(argv, cwd, reply)

\* _run_unidentified_tool
run_unidentified_tool(extra_args, settings, reply) ==
    LET cwd == get_cwd(settings, FALSE, None)
        argv0 == IF settings.path # <<>> THEN settings.path
                 ELSE (IF settings.interpreter # <<>> THEN settings.interpreter
                       ELSE <<SysExecutable>>)
                      \o <<"-m", IF settings.preferDaemon THEN "mypy.dmypy" ELSE "mypy">>
        argv == argv0 \o extra_args
    IN  run_path(argv, cwd, reply)

\* the argv of the version probe for these settings
ProbeArgv(settings) ==
    run_unidentified_tool(<<"--version">>, settings, OSError).invoked[1].argv

\* lines 119-132 of get_mypy_info: what it makes of the probe that
\* _run_unidentified_tool ran; every failure ends in the bare except clause,
\* which logs and lets the function return None
ProbeOutcome(INFO, code_workspace, run) ==
    LET failed == [info |-> None, table |-> INFO, invoked |-> run.invoked,
                   logged |-> <<"Error while checking mypy executable">>]
    IN  IF run.raised THEN failed
        ELSE IF run.result.stdout = <<>> THEN failed
        ELSE IF Len(run.result.stdout[1]) < 2 THEN failed
        ELSE IF parse_version(run.result.stdout[1][2]) = <<>> THEN failed
        ELSE [info |-> MypyInfo(parse_version(run.result.stdout[1][2]),
                                run.result.stdout[1][1] = "dmypy"),
              table |-> DictPut(INFO, code_workspace,
                                MypyInfo(parse_version(run.result.stdout[1][2]),
                                         run.result.stdout[1][1] = "dmypy")),
              invoked |-> run.invoked,
              logged |-> <<>>]

\* get_mypy_info without the test of line 116: the tool is asked every time
get_mypy_info_probing(settings, INFO, reply) ==
    ProbeOutcome(INFO, settings.workspaceFS,
                 run_unidentified_tool(<<"--version">>, settings, reply))

\* get_mypy_info: the value returned (None when the probe failed), the
\* table after the call, the tool executions made and the messages logged.
\* reply is the tool's answer should the probe run.
get_mypy_info(settings, INFO, reply) ==
    IF settings.workspaceFS \in DOMAIN INFO
    THEN [info |-> INFO[settings.workspaceFS], table |-> INFO, invoked |-> <<>>,
          logged |-> <<>>]
    ELSE ProbeOutcome(INFO, settings.workspaceFS,
                      run_unidentified_tool(<<"--version">>, settings, reply))

\* DMYPY_STATUS_FILE_ROOT as initialize sets it
DMYPY_STATUS_FILE_ROOT == <<"tmp", ".vscode.dmypy_status">>

DmypyCommands ==
    {"start", "restart", "status", "stop", "kill", "check", "run", "recheck",
     "suggest", "inspect", "hang", "daemon"}

\* _get_dmypy_args without DMYPY_ARGS being consulted: the status file is
\* chosen at every call
get_dmypy_args_choosing(settings, command, DMYPY, uuids) ==
    LET key == normalize_path(settings.workspaceFS)
        STATUS_FILE_NAME ==
            IF settings.daemonStatusFile # NoStr THEN settings.daemonStatusFile
            ELSE fspath(DMYPY_STATUS_FILE_ROOT) \o "/status-" \o ToString(uuids) \o ".json"
        args == <<"--status-file", STATUS_FILE_NAME>>
    IN  IF command \notin DmypyCommands
        THEN [raised |-> TRUE, args |-> <<>>, dmypy |-> DMYPY, uuids |-> uuids]
        ELSE [raised |-> FALSE,
              args |-> IF command \in {"start", "restart", "status", "stop", "kill"}
                       THEN args \o <<command>>
                       ELSE args \o <<command, "--">>,
              dmypy |-> DictPut(DMYPY, key, args),
              uuids |-> IF settings.daemonStatusFile = NoStr
                        THEN uuids + 1 ELSE uuids]

\* _get_dmypy_args: the list returned, DMYPY_ARGS and the number of uuids
\* drawn after the call; raised when the command is not a dmypy command
get_dmypy_args(settings, command, DMYPY, uuids) ==
    LET key == normalize_path(settings.workspaceFS)
        STATUS_FILE_NAME ==
            IF settings.daemonStatusFile # NoStr THEN settings.daemonStatusFile
            ELSE fspath(DMYPY_STATUS_FILE_ROOT) \o "/status-" \o ToString(uuids) \o ".json"
        fresh == key \notin DOMAIN DMYPY
        args == IF fresh THEN <<"--status-file", STATUS_FILE_NAME>> ELSE DMYPY[key]
    IN  IF command \notin DmypyCommands
        THEN [raised |-> TRUE, args |-> <<>>, dmypy |-> DMYPY, uuids |-> uuids]
        ELSE [raised |-> FALSE,
              args |-> IF command \in {"start", "restart", "status", "stop", "kill"}
                       THEN args \o <<command>>
                       ELSE args \o <<command, "--">>,
              dmypy |-> IF fresh THEN DictPut(DMYPY, key, args) ELSE DMYPY,
              uuids |-> IF fresh /\ settings.daemonStatusFile = NoStr
                        THEN uuids + 1 ELSE uuids]

\* _run_tool_on_document raising on the None that get_mypy_info returned
CommandFailed(cwd, table, DMYPY, uuids, invoked, logged) ==
    [raised |-> TRUE, argv |-> <<>>, cwd |-> cwd, table |-> table,
     dmypy |-> DMYPY, uuids |-> uuids, invoked |-> invoked, logged |-> logged]

\* lines 703-717: the argv and the cwd, dm being the daemon arguments
BuildCommand(document, extra_args, settings, cwd, info1, info2, dm) ==
    LET argv0 == IF settings.path # <<>> THEN settings.path
                 ELSE (IF settings.interpreter # <<>> THEN settings.interpreter
                       ELSE <<SysExecutable>>)
                      \o <<"-m", IF info1.info.is_daemon THEN "mypy.dmypy" ELSE "mypy">>
        argv1 == argv0 \o dm.args \o TOOL_ARGS \o settings.args \o extra_args
    IN  [raised |-> FALSE,
         argv |-> IF settings.reportingScope = "file"
                  THEN argv1 \o <<fspath(Resolve(document.path))>>
                  ELSE argv1 \o <<fspath(cwd)>>,
         cwd |-> IF settings.reportingScope = "file" THEN Resolve(cwd) ELSE cwd,
         table |-> info2.table, dmypy |-> dm.dmypy, uuids |-> dm.uuids,
         invoked |-> info1.invoked \o info2.invoked,
         logged |-> info1.logged \o info2.logged]

\* line 708 onwards: info2 is what the second get_mypy_info call gave
DaemonCommand(document, extra_args, settings, cwd, DMYPY, uuids, info1, info2) ==
    IF info2.info = None
    THEN CommandFailed(cwd, info2.table, DMYPY, uuids, info1.invoked \o info2.invoked,
                       info1.logged \o info2.logged)
    ELSE BuildCommand(document, extra_args, settings, cwd, info1, info2,
                      IF info2.info.is_daemon
                      THEN get_dmypy_args(settings, "run", DMYPY, uuids)
                      ELSE [raised |-> FALSE, args |-> <<>>, dmypy |-> DMYPY,
                            uuids |-> uuids])

\* line 707 onwards: info1 is what the first get_mypy_info call gave, made
\* only when no path is configured
ModuleCommand(document, extra_args, settings, cwd, DMYPY, uuids, probe, info1) ==
    IF settings.path = <<>> /\ info1.info = None
    THEN CommandFailed(cwd, info1.table, DMYPY, uuids, info1.invoked, info1.logged)
    ELSE DaemonCommand(document, extra_args, settings, cwd, DMYPY, uuids, info1,
                       get_mypy_info(settings, info1.table, probe))

\* lines 703-717 with the settings and the cwd of the document
SettingsCommand(document, extra_args, settings, cwd, INFO, DMYPY, uuids, probe) ==
    ModuleCommand(document, extra_args, settings, cwd, DMYPY, uuids, probe,
                  IF settings.path = <<>> THEN get_mypy_info(settings, INFO, probe)
                  ELSE [info |-> None, table |-> INFO, invoked |-> <<>>,
                        logged |-> <<>>])

\* the argv _run_tool_on_document builds and the state it leaves, before
\* the tool is started; raised when get_mypy_info gave None
ToolCommand(document, extra_args, WS, GS, INFO, DMYPY, uuids, probe) ==
    SettingsCommand(document, extra_args, get_settings_by_document(WS, GS, document),
                    get_cwd(get_settings_by_document(WS, GS, document), TRUE, document),
                    INFO, DMYPY, uuids, probe)

\* lines 721-730: the tool has answered (or could not be started)
CommandResult(cmd, run) ==
    [raised |-> run.raised, started |-> TRUE,
     result |-> IF run.raised THEN None ELSE run.result,
     table |-> cmd.table, dmypy |-> cmd.dmypy, uuids |-> cmd.uuids,
     invoked |-> cmd.invoked \o run.invoked,
     logged |-> cmd.logged \o (IF ~run.raised /\ run.result.stderr # ""
                               THEN <<run.result.stderr>> ELSE <<>>)]

\* lines 721-730: the command is run unless building it raised
RunCommand(cmd, reply) ==
    IF cmd.raised
    THEN [raised |-> TRUE, started |-> FALSE, result |-> None, table |-> cmd.table,
          dmypy |-> cmd.dmypy, uuids |-> cmd.uuids, invoked |-> cmd.invoked,
          logged |-> cmd.logged]
    ELSE CommandResult(cmd, run_path(cmd.argv, cmd.cwd, reply))

\* _run_tool_on_document: reply is the tool's answer to the check run;
\* started says that the check run was started
run_tool_on_document(document, extra_args, WS, GS, INFO, DMYPY, uuids, probe, reply) ==
    RunCommand(ToolCommand(document, extra_args, WS, GS, INFO, DMYPY, uuids, probe), reply)

\* the answers of the tool to a dmypy stop or kill: it cannot be started, it
\* stops the daemon, or it finds no daemon
DaemonReplies ==
    {OSError, RunResult(<<>>, "", 0), RunResult(<<>>, "No status file found", 2)}

\* lines 742-746: the argv of a dmypy command
DmypyArgv(settings, dmypy_args, extra_args) ==
    (IF settings.path # <<>> THEN settings.path
     ELSE (IF settings.interpreter # <<>> THEN settings.interpreter
           ELSE <<SysExecutable>>) \o <<"-m", "mypy.dmypy">>)
        \o dmypy_args \o extra_args

\* lines 752-758: the tool has answered (or could not be started)
DmypyRan(mi, dm, ran) ==
    [raised |-> IF ran.raised THEN "OSError" ELSE NoStr,
     result |-> IF ran.raised THEN None ELSE ran.result,
     table |-> mi.table, dmypy |-> dm.dmypy, uuids |-> dm.uuids,
     invoked |-> mi.invoked \o ran.invoked,
     logged |-> mi.logged \o (IF ~ran.raised /\ ran.result.stderr # ""
                              THEN <<ran.result.stderr>> ELSE <<>>)]

\* lines 740-752, dm being what _get_dmypy_args gave
DmypyStarted(extra_args, settings, command, mi, dm, reply) ==
    IF dm.raised
    THEN [raised |-> "ValueError", result |-> None, table |-> mi.table,
          dmypy |-> dm.dmypy, uuids |-> dm.uuids, invoked |-> mi.invoked,
          logged |-> mi.logged \o <<"Invalid dmypy command: " \o command>>]
    ELSE DmypyRan(mi, dm,
                  run_path(DmypyArgv(settings, dm.args, extra_args),
                           get_cwd(settings, FALSE, None), reply))

\* a test that lets every workspace pass
InDaemonContext_any(mi) == TRUE

\* line 736: the tool of the workspace runs as a daemon
InDaemonContext(mi) == mi.info.is_daemon

\* lines 736-752, mi being what get_mypy_info gave; reading is_daemon of
\* None raises AttributeError
DmypyChecked(extra_args, settings, command, DMYPY, uuids, reply, mi) ==
    IF mi.info = None
    THEN [raised |-> "AttributeError", result |-> None, table |-> mi.table,
          dmypy |-> DMYPY, uuids |-> uuids, invoked |-> mi.invoked,
          logged |-> mi.logged]
    ELSE IF ~InDaemonContext(mi)
    THEN [raised |-> "ValueError", result |-> None, table |-> mi.table,
          dmypy |-> DMYPY, uuids |-> uuids, invoked |-> mi.invoked,
          logged |-> mi.logged
              \o <<"dmypy command called in non-daemon context: " \o command>>]
    ELSE DmypyStarted(extra_args, settings, command, mi,
                      get_dmypy_args(settings, command, DMYPY, uuids), reply)

\* _run_dmypy_command: raised names the exception it ends with, if any;
\* probe and reply are the tool's answers to the version probe and to the
\* command, should they run
run_dmypy_command(extra_args, settings, command, INFO, DMYPY, uuids, probe, reply) ==
    DmypyChecked(extra_args, settings, command, DMYPY, uuids, reply,
                 get_mypy_info(settings, INFO, probe))

\* ------------------------------------------------------------------------
\* The settings objects and their copies
\* ------------------------------------------------------------------------
\* `argv = settings["path"]` or `argv = settings["interpreter"] or [...]`
\* followed by `argv += ...` extends the list of the settings object that
\* was passed in: the object after argv was built
InPlace(settings, argv) ==
    IF settings.path # <<>> THEN [settings EXCEPT !.path = argv]
    ELSE IF settings.interpreter # <<>> THEN [settings EXCEPT !.interpreter = argv]
    ELSE settings

\* the object after the executions of a handler that ran in its workspace
UsedBy(settings, invoked) ==
    IF \E i \in 1..Len(invoked) : invoked[i].cwd = settings.workspaceFS
    THEN InPlace(settings,
                 invoked[CHOOSE i \in 1..Len(invoked) :
                            /\ invoked[i].cwd = settings.workspaceFS
                            /\ \A j \in (i + 1)..Len(invoked) :
                                  invoked[j].cwd # settings.workspaceFS].argv)
    ELSE settings

\* passing the stored object itself: what is done to it is done to the
\* stored settings
deepcopy_aliased(stored, used) == used

\* copy.deepcopy where the functions that build an argv are called: what
\* is done to the copy leaves the stored object as it was
deepcopy(stored, used) == stored

\* WORKSPACE_SETTINGS after a handler made these executions
SettingsAfter(WS, invoked) ==
    [WS EXCEPT !.map = [k \in DOMAIN WS.map |->
                           deepcopy(WS.map[k], UsedBy(WS.map[k], invoked))]]

\* ------------------------------------------------------------------------
\* The parser of the tool's output
\* ------------------------------------------------------------------------
\* A line of output is a record: match says whether DIAGNOSTIC_RE matches
\* its text, the other fields are the pieces of the text: the location, the
\* type word, the message, the code of a "  [code]" marker and the white
\* space that follows; quoted says that the text is wrapped in one leading
\* and one trailing single quote.
DiagLine(filepath, line, char, end_line, end_char, type, message, code) ==
    [match |-> TRUE, quoted |-> FALSE, filepath |-> filepath, line |-> line,
     char |-> char, end_line |-> end_line, end_char |-> end_char, type |-> type,
     message |-> message, code |-> code, trailing |-> ""]

\* the same line with white space after its last character
WithTrailing(line, space) == [line EXCEPT !.trailing = space]

\* a line DIAGNOSTIC_RE does not match (a banner, a summary)
TextLine(text) == [match |-> FALSE, quoted |-> FALSE, text |-> text]

ERROR_CODE_BASE_URL == "https://mypy.readthedocs.io/en/stable/"
SEE_HREF_PREFIX == "See https://mypy.readthedocs.io"
SEE_PREFIX_LEN == Len("See ")
NOTE_CODE == "note"
LINE_OFFSET == 1
CHAR_OFFSET == 1

StartsWith(s, prefix) == Len(s) >= Len(prefix) /\ SubSeq(s, 1, Len(prefix)) = prefix

Max(a, b) == IF a >= b THEN a ELSE b

\* line[1:-1] when the line starts and ends with a single quote
Unquote(line) == IF line.quoted THEN [line EXCEPT !.quoted = FALSE] ELSE line

\* the location group
Location(filepath, line, char, end_line, end_char) ==
    <<filepath, line, char, end_line, end_char>>

EndsWith(s, suffix) ==
    Len(s) >= Len(suffix) /\ SubSeq(s, Len(s) - Len(suffix) + 1, Len(s)) = suffix

\* the text after "type: " of a line
MessageText(message, code, trailing) ==
    message \o (IF code # NoStr THEN "  [" \o code \o "]" ELSE "") \o trailing

\* the tail of DIAGNOSTIC_RE, (?P<message>.*?)(?:  )?(?:\[(?P<code>[\w-]+)\])?$ :
\* the message group is the shortest prefix of the text after which two
\* spaces (optional) and a code marker (optional) reach the end of the line.
\* The code marker is found only when nothing follows it.
MatchTail(message, code, trailing) ==
    IF trailing = ""
    THEN [message |-> message, code |-> code]
    ELSE IF EndsWith(MessageText(message, code, trailing), "  ")
    THEN [message |-> SubSeq(MessageText(message, code, trailing), 1,
                             Len(MessageText(message, code, trailing)) - 2),
          code |-> NoStr]
    ELSE [message |-> MessageText(message, code, trailing), code |-> NoStr]

\* _get_group_dict: the groups of the match, or None. On a line still
\* wrapped in quotes the leading quote becomes part of the file path and the
\* trailing one part of the message, which then also swallows a code marker.
get_group_dict(line) ==
    IF ~line.match THEN None
    ELSE IF line.quoted
    THEN [location |-> Location(<<"'">> \o line.filepath, line.line, line.char,
                                line.end_line, line.end_char),
          filepath |-> <<"'">> \o line.filepath,
          line |-> line.line, char |-> line.char,
          end_line |-> line.end_line, end_char |-> line.end_char,
          type |-> line.type,
          message |-> MessageText(line.message, line.code, line.trailing) \o "'",
          code |-> NoStr]
    ELSE [location |-> Location(line.filepath, line.line, line.char,
                                line.end_line, line.end_char),
          filepath |-> line.filepath,
          line |-> line.line, char |-> line.char,
          end_line |-> line.end_line, end_char |-> line.end_char,
          type |-> line.type,
          message |-> MatchTail(line.message, line.code, line.trailing).message,
          code |-> MatchTail(line.message, line.code, line.trailing).code]

SeverityNames == {"Error", "Warning", "Information", "Hint"}

\* the lookup with the type word asked before the code
get_severity_type_first(code, code_type, severity) ==
    LET by_type == DictGet(severity, code_type, NoStr)
        value == IF by_type # NoStr THEN by_type ELSE DictGet(severity, code, "Error")
    IN  IF value \in SeverityNames THEN value ELSE "Information"

\* _get_severity
get_severity(code, code_type, severity) ==
    LET by_code == DictGet(severity, code, NoStr)
        value == IF by_code # NoStr THEN by_code ELSE DictGet(severity, code_type, "Error")
    IN  IF value \in SeverityNames THEN value ELSE "Information"

\* "\n".join(notes)
RECURSIVE JoinLines(_)
JoinLines(notes) ==
    IF notes = <<>> THEN ""
    ELSE IF Len(notes) = 1 THEN notes[1]
    ELSE notes[1] \o "\n" \o JoinLines(Tail(notes))

Position(line, character) == [line |-> line, character |-> character]

\* lines 336-337: the reported start, the column being 1 when there is none
StartLine(data) == data.line[1]

StartChar(data) == IF data.char # NoInt THEN data.char[1] ELSE 1

\* lines 339-343: the reported end, which defaults to the start
EndLine(data) == IF data.end_line # NoInt THEN data.end_line[1] ELSE StartLine(data)

\* the end column taken as reported
EndChar_as_reported(data) ==
    IF data.end_char # NoInt THEN data.end_char[1] ELSE StartChar(data)

EndChar(data) == IF data.end_char # NoInt THEN data.end_char[1] + 1 ELSE StartChar(data)

\* the start with the line not held at 0
StartPosition_unclamped(data) ==
    Position(StartLine(data) - LINE_OFFSET, StartChar(data) - CHAR_OFFSET)

\* lines 345-348
StartPosition(data) ==
    Position(Max(StartLine(data) - LINE_OFFSET, 0), StartChar(data) - CHAR_OFFSET)

\* lines 350-353
EndPosition(data) ==
    Position(Max(EndLine(data) - LINE_OFFSET, 0), EndChar(data) - CHAR_OFFSET)

\* lines 336-365: the Diagnostic built from the groups of one line
BuildDiagnostic(data, message, href, see_href, severity) ==
    [range |-> [start |-> StartPosition(data), end |-> EndPosition(data)],
     message |-> message,
     severity |-> get_severity(data.code, data.type, severity),
     code |-> IF data.code # NoStr THEN data.code
              ELSE IF see_href # NoStr THEN NOTE_CODE ELSE NoStr,
     code_description |-> href,
     source |-> TOOL_DISPLAY]

\* the dict of diagnostics, in insertion order: a list of entries
Keys(results) == {results[k].path : k \in 1..Len(results)}

DiagnosticsOf(results, path) ==
    LET k == CHOOSE k \in 1..Len(results) : results[k].path = path
    IN  results[k].diagnostics

\* lines 366-369
AddDiagnostic(diagnostics, filepath, diagnostic) ==
    IF filepath \in Keys(diagnostics)
    THEN [k \in 1..Len(diagnostics) |->
            IF diagnostics[k].path = filepath
            THEN [diagnostics[k] EXCEPT !.diagnostics = Append(@, diagnostic)]
            ELSE diagnostics[k]]
    ELSE Append(diagnostics, [path |-> filepath, diagnostics |-> <<diagnostic>>])

\* the capture without the test that no link is set yet
CaptureSeeHref_overwriting(see_href, message) ==
    IF StartsWith(message, SEE_HREF_PREFIX)
    THEN SubSeq(message, SEE_PREFIX_LEN + 1, Len(message))
    ELSE see_href

\* lines 313-315: the link a note sets, kept once it is set
CaptureSeeHref(see_href, message) ==
    IF see_href = NoStr /\ StartsWith(message, SEE_HREF_PREFIX)
    THEN SubSeq(message, SEE_PREFIX_LEN + 1, Len(message))
    ELSE see_href

\* the lookahead without the comparison of the locations
NoteContinues_any_location(data, next_data) ==
    /\ next_data # None
    /\ next_data.type = "note"

\* lines 319-327: the next line is a note at the location of this note;
\* next_data is None when there is no next line or it does not match
NoteContinues(data, next_data) ==
    /\ next_data # None
    /\ next_data.type = "note"
    /\ next_data.location = data.location

\* the link kept for the lines that follow
ResetSeeHref_kept(see_href) == see_href

\* line 372: after a diagnostic was added no link is set
ResetSeeHref(see_href) == NoStr

\* the loop of _parse_output_using_regex from line i on
RECURSIVE ParseFrom(_, _, _, _, _, _)
ParseFrom(lines, i, notes, see_href, diagnostics, severity) ==
    IF i > Len(lines) THEN diagnostics
    ELSE LET data == get_group_dict(Unquote(lines[i]))
         IN  IF data = None
             THEN ParseFrom(lines, i + 1, notes, see_href, diagnostics, severity)
             ELSE LET filepath == absolute_path(data.filepath)
                      is_note == data.type = "note"
                      see_href1 == IF is_note THEN CaptureSeeHref(see_href, data.message)
                                   ELSE see_href
                      notes1 == IF is_note THEN Append(notes, data.message) ELSE notes
                      next_data == IF i + 1 <= Len(lines)
                                   THEN get_group_dict(lines[i + 1]) ELSE None
                      unfinished == is_note /\ NoteContinues(data, next_data)
                      message == IF is_note THEN JoinLines(notes1) ELSE data.message
                      href == IF is_note THEN see_href1
                              ELSE IF data.code # NoStr
                                   THEN ERROR_CODE_BASE_URL \o data.code ELSE NoStr
                      diagnostic == BuildDiagnostic(data, message, href, see_href1, severity)
                  IN  IF unfinished
                      THEN ParseFrom(lines, i + 1, notes1, see_href1, diagnostics, severity)
                      ELSE ParseFrom(lines, i + 1, <<>>, ResetSeeHref(see_href1),
                                     AddDiagnostic(diagnostics, filepath, diagnostic),
                                     severity)

\* _parse_output_using_regex
parse_output_using_regex(content, severity) ==
    ParseFrom(content, 1, <<>>, NoStr, <<>>, severity)

\* ------------------------------------------------------------------------
\* The lint run
\* ------------------------------------------------------------------------
\* one publishDiagnostics notification
Publish(uri, diagnostics) == [uri |-> uri, diagnostics |-> diagnostics]

\* _clear_diagnostics: the notification it sends
clear_diagnostics(document) == <<Publish(document.uri, <<>>)>>

\* _is_empty_diagnostics answering True only for results that are None
is_empty_diagnostics_none_only(filepath, has_results, results) == ~has_results

\* _is_empty_diagnostics; has_results is FALSE when results is None
is_empty_diagnostics(filepath, has_results, results) ==
    IF ~has_results THEN TRUE
    ELSE ~\E k \in 1..Len(results) :
            is_same_path(filepath, results[k].path) /\ results[k].diagnostics # <<>>

\* a set as a list, in the order the iteration visits it
RECURSIVE SetToSeq(_)
SetToSeq(S) ==
    IF S = {} THEN <<>>
    ELSE LET x == CHOOSE x \in S : TRUE IN <<x>> \o SetToSeq(S \ {x})

\* lines 245-255: the notifications of the loop over parse_results
RECURSIVE PublishResults(_, _, _, _)
PublishResults(parse_results, k, reportingScope, document) ==
    IF k > Len(parse_results) THEN <<>>
    ELSE LET file_path == parse_results[k].path
             diagnostics == parse_results[k].diagnostics
             is_file_same_as_document == is_same_path(file_path, document.path)
             here == IF reportingScope = "file" /\ is_file_same_as_document
                     THEN <<Publish(document.uri, diagnostics)>>
                     ELSE IF reportingScope = "workspace"
                     THEN <<Publish(from_fs_path(file_path), diagnostics)>>
                     ELSE <<>>
         IN  here \o PublishResults(parse_results, k + 1, reportingScope, document)

\* lines 263-267: the notifications that clear the files no longer reported
RECURSIVE ClearReported(_, _)
ClearReported(file_paths, parse_results) ==
    IF file_paths = <<>> THEN <<>>
    ELSE (IF Head(file_paths) \notin Keys(parse_results)
          THEN <<Publish(from_fs_path(Head(file_paths)), <<>>)>> ELSE <<>>)
         \o ClearReported(Tail(file_paths), parse_results)

\* the else branch of line 268 left out
NoOutput_nothing(document) == <<>>

\* lines 268-269: the tool printed nothing
NoOutput(document) == clear_diagnostics(document)

\* a set that holds the files of the last output only
ReportedAfter_last_output(reportingScope, parse_results, reported) ==
    IF reportingScope = "workspace" THEN Keys(parse_results) ELSE reported

\* lines 252-253: _reported_file_paths after the loop over parse_results
ReportedAfter(reportingScope, parse_results, reported) ==
    IF reportingScope = "workspace" THEN reported \cup Keys(parse_results) ELSE reported

\* RouteParsed with the _is_empty_diagnostics test of line 258 left out: in
\* file scope the document is cleared after every parse
RouteParsed_always_clearing(document, reportingScope, parse_results, reported) ==
    [publishes |->
        PublishResults(parse_results, 1, reportingScope, document)
        \o (IF reportingScope = "file" THEN clear_diagnostics(document) ELSE <<>>)
        \o (IF reportingScope = "workspace"
            THEN ClearReported(SetToSeq(reported \cup Keys(parse_results)), parse_results)
            ELSE <<>>),
     reported |-> ReportedAfter(reportingScope, parse_results, reported),
     parse_results |-> parse_results]

\* RouteParsed with the reportingScope test of line 257 left out
RouteParsed_any_scope(document, reportingScope, parse_results, reported) ==
    [publishes |->
        PublishResults(parse_results, 1, reportingScope, document)
        \o (IF is_empty_diagnostics(document.path, TRUE, parse_results)
            THEN clear_diagnostics(document) ELSE <<>>)
        \o (IF reportingScope = "workspace"
            THEN ClearReported(SetToSeq(reported \cup Keys(parse_results)), parse_results)
            ELSE <<>>),
     reported |-> ReportedAfter(reportingScope, parse_results, reported),
     parse_results |-> parse_results]

\* lines 244-267: the notifications sent for the parsed output, and
\* _reported_file_paths afterwards
RouteParsed(document, reportingScope, parse_results, reported) ==
    [publishes |->
        PublishResults(parse_results, 1, reportingScope, document)
        \o (IF reportingScope = "file"
               /\ is_empty_diagnostics(document.path, TRUE, parse_results)
            THEN clear_diagnostics(document) ELSE <<>>)
        \o (IF reportingScope = "workspace"
            THEN ClearReported(SetToSeq(reported \cup Keys(parse_results)), parse_results)
            ELSE <<>>),
     reported |-> ReportedAfter(reportingScope, parse_results, reported),
     parse_results |-> parse_results]

\* lines 239-269: the notifications sent for the result of the tool, and
\* _reported_file_paths afterwards
RouteResult(document, settings, result, reported) ==
    IF result # None /\ result.stdout # <<>>
    THEN RouteParsed(document, settings.reportingScope,
                     parse_output_using_regex(result.stdout, settings.severity),
                     reported)
    ELSE [publishes |-> NoOutput(document), reported |-> reported,
          parse_results |-> <<>>]

\* the version gate of line 235; sys.version_info >= (3, 8) holds
ShowErrorEnd(version) ==
    version[1] > 0 \/ (version[1] = 0 /\ version[2] >= 991)

\* lines 212-232: a document that is not linted gets its diagnostics cleared
SkipRun(document, why, state) ==
    [publishes |-> clear_diagnostics(document), invoked |-> <<>>,
     logged |-> <<why>>, caught |-> FALSE, skipped |-> TRUE, checked |-> FALSE,
     result |-> None, parse_results |-> <<>>, state |-> state]

\* an except clause that also clears the diagnostics of the document
ExceptRun_clearing(document, invoked, logged, checked, state) ==
    [publishes |-> clear_diagnostics(document), invoked |-> invoked,
     logged |-> logged \o <<"Linting failed with error">>,
     caught |-> TRUE, skipped |-> FALSE, checked |-> checked, result |-> None,
     parse_results |-> <<>>, state |-> state]

\* lines 270-274: the except clause logs the error; nothing is published
\* for the document
ExceptRun(document, invoked, logged, checked, state) ==
    [publishes |-> <<>>, invoked |-> invoked,
     logged |-> logged \o <<"Linting failed with error">>,
     caught |-> TRUE, skipped |-> FALSE, checked |-> checked, result |-> None,
     parse_results |-> <<>>, state |-> state]

\* lines 239-269 done: what the run did
Routed(mi, rt, routed, reported) ==
    [publishes |-> routed.publishes,
     invoked |-> mi.invoked \o rt.invoked,
     logged |-> mi.logged \o rt.logged,
     caught |-> FALSE, skipped |-> FALSE, checked |-> TRUE,
     result |-> rt.result,
     parse_results |-> routed.parse_results,
     state |-> [table |-> rt.table, dmypy |-> rt.dmypy, uuids |-> rt.uuids,
                reported |-> routed.reported]]

\* lines 238-274: rt is what _run_tool_on_document did
LintResult(document, settings, reported, mi, rt) ==
    IF rt.raised
    THEN ExceptRun(document, mi.invoked \o rt.invoked, mi.logged \o rt.logged,
                   rt.started,
                   [table |-> rt.table, dmypy |-> rt.dmypy, uuids |-> rt.uuids,
                    reported |-> reported])
    ELSE Routed(mi, rt, RouteResult(document, settings, rt.result, reported), reported)

\* lines 234-274: mi is what get_mypy_info gave; reading the version of
\* None raises AttributeError
LintVersion(document, settings, WS, GS, DMYPY, uuids, reported, probe, reply, mi) ==
    IF mi.info = None
    THEN ExceptRun(document, mi.invoked, mi.logged, FALSE,
                   [table |-> mi.table, dmypy |-> DMYPY, uuids |-> uuids,
                    reported |-> reported])
    ELSE LintResult(document, settings, reported, mi,
                    run_tool_on_document(document,
                                         IF ShowErrorEnd(mi.info.version)
                                         THEN <<"--show-error-end">> ELSE <<>>,
                                         WS, GS, mi.table, DMYPY, uuids, probe, reply))

\* lines 212-274, with the settings of the document
LintDocument(document, settings, WS, GS, INFO, DMYPY, uuids, reported, probe, reply) ==
    LET unchanged == [table |-> INFO, dmypy |-> DMYPY, uuids |-> uuids,
                      reported |-> reported]
    IN  IF IsNotebookCell(document)
        THEN SkipRun(document, "Skipping notebook cells [Not Supported]", unchanged)
        ELSE IF settings.reportingScope = "file" /\ is_stdlib_file(document.path)
        THEN SkipRun(document, "Skipping standard library file (stdlib excluded)",
                     unchanged)
        ELSE IF settings.reportingScope = "file"
                /\ is_match(settings.ignorePatterns, document.path)
        THEN SkipRun(document,
                     "Skipping file due to mypy-type-checker.ignorePatterns match",
                     unchanged)
        ELSE LintVersion(document, settings, WS, GS, DMYPY, uuids, reported, probe, reply,
                         get_mypy_info(settings, INFO, probe))

\* _linting_helper: what one call does. probe and reply are the tool's
\* answers to the version probe and to the check run, should they happen.
\* caught says that an exception reached the except clause of line 270,
\* checked that the check run was started.
linting_helper(document, WS, GS, INFO, DMYPY, uuids, reported, probe, reply) ==
    LintDocument(document, get_settings_by_document(WS, GS, document), WS, GS, INFO,
                 DMYPY, uuids, reported, probe, reply)

\* ------------------------------------------------------------------------
\* Server start
\* ------------------------------------------------------------------------
MIN_VERSION == "1.0.0"

\* actual_version < min_version, for MIN_VERSION 1.0.0
BelowMinVersion(version) == version[1] < 1

\* lines 467-480 for one workspace, joined with the rest of the loop
VersionLogged(mi, rest) ==
    [raised |-> rest.raised, table |-> rest.table,
     invoked |-> mi.invoked \o rest.invoked,
     logged |-> mi.logged
         \o <<IF BelowMinVersion(mi.info.version)
              THEN "Version of linter is NOT supported"
              ELSE "SUPPORTED mypy>=1.0.0">>
         \o rest.logged]

\* _log_version_info from the k-th workspace on: the probes it makes; it
\* raises (AttributeError) at the first workspace whose probe fails
RECURSIVE log_version_info(_, _, _, _)
\* the k-th workspace, mi being what get_mypy_info gave for it
LogVersionInfoOf(WS, k, probes, mi) ==
    IF mi.info = None
    THEN [raised |-> TRUE, table |-> mi.table, invoked |-> mi.invoked,
          logged |-> mi.logged]
    ELSE VersionLogged(mi, log_version_info(WS, k + 1, mi.table, probes))

log_version_info(WS, k, INFO, probes) ==
    IF k > Len(WS.order)
    THEN [raised |-> FALSE, table |-> INFO, invoked |-> <<>>, logged |-> <<>>]
    ELSE LogVersionInfoOf(WS, k, probes,
                          get_mypy_info(WS.map[WS.order[k]], INFO, probes[k]))

\* ------------------------------------------------------------------------
\* Server stop
\* ------------------------------------------------------------------------
\* the loop of on_exit and on_shutdown from the k-th workspace on; it raises
\* (AttributeError) at the first workspace for which get_mypy_info gives None
RECURSIVE stop_daemons(_, _, _, _, _, _, _, _)

\* the k-th workspace is done (cmd: what the try statement ran, its
\* exception dropped by the except clause); rest is the rest of the loop
DaemonStopped(mi, cmd, rest) ==
    [raised |-> rest.raised, table |-> rest.table, dmypy |-> rest.dmypy,
     uuids |-> rest.uuids,
     invoked |-> mi.invoked \o cmd.invoked \o rest.invoked,
     logged |-> mi.logged \o cmd.logged \o rest.logged]

StopNext(WS, k, command, probes, replies, mi, cmd) ==
    DaemonStopped(mi, cmd,
                  stop_daemons(WS, k + 1, command, cmd.table, cmd.dmypy, cmd.uuids,
                               probes, replies))

\* the k-th workspace, mi being what get_mypy_info gave for it
StopDaemonOf(WS, k, command, DMYPY, uuids, probes, replies, mi) ==
    IF mi.info = None
    THEN [raised |-> "AttributeError", table |-> mi.table, dmypy |-> DMYPY,
          uuids |-> uuids, invoked |-> mi.invoked, logged |-> mi.logged]
    ELSE IF mi.info.is_daemon
    THEN StopNext(WS, k, command, probes, replies, mi,
                  run_dmypy_command(<<>>, WS.map[WS.order[k]], command, mi.table,
                                    DMYPY, uuids, probes[k], replies[k]))
    ELSE StopNext(WS, k, command, probes, replies, mi,
                  [table |-> mi.table, dmypy |-> DMYPY, uuids |-> uuids,
                   invoked |-> <<>>, logged |-> <<>>])

stop_daemons(WS, k, command, INFO, DMYPY, uuids, probes, replies) ==
    IF k > Len(WS.order)
    THEN [raised |-> NoStr, table |-> INFO, dmypy |-> DMYPY, uuids |-> uuids,
          invoked |-> <<>>, logged |-> <<>>]
    ELSE StopDaemonOf(WS, k, command, DMYPY, uuids, probes, replies,
                      get_mypy_info(WS.map[WS.order[k]], INFO, probes[k]))

\* ------------------------------------------------------------------------
\* The working directory of the process
\* ------------------------------------------------------------------------
\* lsp_utils.SERVER_CWD: os.getcwd() when the module was loaded
SERVER_CWD == <<"srv">>

\* the threads of the server that run the tool in the process
Threads == {1, 2}
NoThread == 0

\* a thread that has not called run_module or run_api
NotCalled ==
    [pc |-> "idle", calls |-> 0, cwd |-> <<>>, body |-> NoStr, entry_cwd |-> <<>>,
     body_ran |-> FALSE, body_cwd |-> <<>>, raised |-> NoStr, exit_cwd |-> <<>>]

\* ------------------------------------------------------------------------
\* The message loop
\* ------------------------------------------------------------------------
\* MAX_WORKERS, the size of the thread pool of LSP_SERVER
MAX_WORKERS == 5

\* no notification has been handled
NoEvent == [id |-> 0, handler |-> "load", document |-> None, behind |-> 0]

\* a handler registered for the thread pool
is_thread_function_pool(handler) == TRUE

\* whether the loop hands the handler to the thread pool: did_open and
\* did_save are plain functions registered with @LSP_SERVER.feature alone,
\* none is marked for the pool, so the loop calls each one itself and reads
\* the next message when the handler has returned
is_thread_function(handler) == FALSE

\* the pending notifications whose handler may be the next to finish: the
\* first one, and with handlers in the pool those of the MAX_WORKERS first
Ready(pending) ==
    {i \in 1..Len(pending) :
        \/ i = 1
        \/ i <= MAX_WORKERS /\ \A j \in 1..i : is_thread_function(pending[j].handler)}

\* a list without its i-th element
Without(seq, i) == SubSeq(seq, 1, i - 1) \o SubSeq(seq, i + 1, Len(seq))

\* ------------------------------------------------------------------------
\* State
\* ------------------------------------------------------------------------
VARIABLES
    \* the dict WORKSPACE_SETTINGS: [order, map]
    WORKSPACE_SETTINGS,
    \* the dict GLOBAL_SETTINGS
    GLOBAL_SETTINGS,
    \* the dict MYPY_INFO_TABLE: workspace key -> MypyInfo
    MYPY_INFO_TABLE,
    \* the dict DMYPY_ARGS: workspace key -> ["--status-file", name]
    DMYPY_ARGS,
    \* the set _reported_file_paths
    reported_file_paths,
    \* number of uuid4() values drawn so far; the next one is its text
    uuids,
    \* the client's view of the publish sink: uri -> the diagnostics it shows
    \* for the uri, i.e. the last list published when that list is not empty
    displayed,
    \* the handler call that led to this state and what it did
    run,
    \* history: path -> the workspace keys of the lint runs that put the path
    \* into _reported_file_paths or found it there and reported it again
    recorded_by,
    \* the text given to _parse_output_using_regex, as a list of lines, the
    \* severity setting given with it, and the dict it returned
    tool_output,
    severity_setting,
    parsed,
    \* the last call of _run_dmypy_command made on its own, and what it did
    dmypy_call,
    \* the last call of get_cwd made on its own, and what it returned
    cwd_call,
    \* os.getcwd(): the working directory of the server process
    os_cwd,
    \* CWD_LOCK: the thread that holds it, NoThread when it is free
    CWD_LOCK,
    \* the threads that call run_module or run_api: where each one is in
    \* its call and what the call did so far
    threads,
    \* the notifications the server has received and not yet handled, in the
    \* order of their arrival
    inbox,
    \* the notification whose handler ran last
    handled,
    \* the last call of _get_settings_by_document made on its own, and what
    \* it returned
    settings_call

server_vars == <<WORKSPACE_SETTINGS, GLOBAL_SETTINGS, MYPY_INFO_TABLE, DMYPY_ARGS,
                 reported_file_paths, uuids, displayed, run, recorded_by>>

parser_vars == <<tool_output, severity_setting, parsed>>

daemon_vars == <<dmypy_call>>

\* the variables run_module and run_api read and write
lock_vars == <<os_cwd, CWD_LOCK, threads>>

call_vars == <<cwd_call, lock_vars>>

\* the variables of the specifications of single functions
\* the variables of the message loop
loop_vars == <<inbox, handled>>

resolve_vars == <<settings_call>>

unit_vars == <<parser_vars, daemon_vars, call_vars, loop_vars, resolve_vars>>

vars == <<server_vars, unit_vars>>

\* a dict without the key k
DictDel(d, k) == [x \in (DOMAIN d) \ {k} |-> d[x]]

\* the client's view after a list of notifications
RECURSIVE Deliver(_, _)
Deliver(sink, publishes) ==
    IF publishes = <<>> THEN sink
    ELSE Deliver(IF Head(publishes).diagnostics = <<>>
                 THEN DictDel(sink, Head(publishes).uri)
                 ELSE DictPut(sink, Head(publishes).uri, Head(publishes).diagnostics),
                 Tail(publishes))

\* the record of a handler call; reported_before and displayed_before are
\* _reported_file_paths and the client's view when the handler was entered
Run(handler, document, did, reported_before, displayed_before) ==
    [handler |-> handler, document |-> document, publishes |-> did.publishes,
     invoked |-> did.invoked, logged |-> did.logged, caught |-> did.caught,
     skipped |-> did.skipped, checked |-> did.checked, result |-> did.result,
     parse_results |-> did.parse_results, reported_before |-> reported_before,
     displayed_before |-> displayed_before]

NoRun ==
    [publishes |-> <<>>, invoked |-> <<>>, logged |-> <<>>, caught |-> FALSE,
     skipped |-> FALSE, checked |-> FALSE, result |-> None, parse_results |-> <<>>]

\* the module is loaded, initialize has not arrived
Loaded ==
    /\ WORKSPACE_SETTINGS = [order |-> <<>>, map |-> EmptyDict]
    /\ GLOBAL_SETTINGS = EmptyDict
    /\ MYPY_INFO_TABLE = EmptyDict
    /\ DMYPY_ARGS = EmptyDict
    /\ reported_file_paths = {}
    /\ uuids = 0
    /\ displayed = EmptyDict
    /\ run = Run("load", None, NoRun, {}, EmptyDict)
    /\ recorded_by = EmptyDict
    /\ cwd_call = None
    /\ os_cwd = SERVER_CWD
    /\ CWD_LOCK = NoThread
    /\ threads = [t \in Threads |-> NotCalled]
    /\ inbox = <<>>
    /\ handled = NoEvent
    /\ settings_call = None

Init ==
    /\ Loaded
    /\ tool_output = <<>>
    /\ severity_setting = DefaultSeverity
    /\ parsed = <<>>
    /\ dmypy_call = None

Initialized == run.handler # "load"

\* ------------------------------------------------------------------------
\* The tool's answers to a check run
\* ------------------------------------------------------------------------
LineA == DiagLine(PathA, <<3>>, <<7>>, NoInt, NoInt, "error", "bad a", "misc")
LineB == DiagLine(PathBDot, <<1>>, NoInt, NoInt, NoInt, "error", "bad b", NoStr)
LineSuccess == TextLine("Success: no issues found")

\* the lines the tool prints, in the order it prints them
RoutingLines == <<LineSuccess, LineA, LineB>>

\* the sub-lists of at most n elements of a list
RECURSIVE SubLists(_, _)
SubLists(seq, n) ==
    IF seq = <<>> \/ n = 0 THEN {<<>>}
    ELSE SubLists(Tail(seq), n) \cup {<<Head(seq)>> \o q : q \in SubLists(Tail(seq), n - 1)}

Outputs == SubLists(RoutingLines, MaxLines)

\* mypy exits with 1 when it reports something, with 2 and a message on
\* stderr when it fails; the tool may also fail to start
CheckReplies ==
    {OSError, RunResult(<<>>, "mypy: error", 2), RunResult(<<LineA>>, "mypy: error", 2)}
        \cup {RunResult(o, "", IF o = <<>> THEN 0 ELSE 1) : o \in Outputs}

\* ------------------------------------------------------------------------
\* Handlers
\* ------------------------------------------------------------------------
\* the tool's possible answers to the version probes of initialize, one for
\* each workspace
InitProbes(WS) ==
    {probes \in [1..Len(WS.order) ->
                    UNION {ProbeReplies(ProbeArgv(WS.map[WS.order[k]])) :
                              k \in 1..Len(WS.order)}] :
        \A k \in 1..Len(WS.order) :
            probes[k] \in ProbeReplies(ProbeArgv(WS.map[WS.order[k]]))}

\* the state initialize leaves, lv being what _log_version_info (line 439) did
Configured(WS, lv) ==
    /\ WORKSPACE_SETTINGS' = SettingsAfter(WS, lv.invoked)
    /\ MYPY_INFO_TABLE' = lv.table
    /\ run' = Run("initialize", None,
                  [NoRun EXCEPT !.invoked = lv.invoked, !.logged = lv.logged],
                  {}, EmptyDict)

\* lines 405-439, WS being WORKSPACE_SETTINGS after _update_workspace_settings
Configure(WS) ==
    \E probes \in InitProbes(WS) :
        Configured(WS, log_version_info(WS, 1, MYPY_INFO_TABLE, probes))

\* initialize: the settings arrive (the client sends no globalSettings),
\* then _log_version_info probes the tool of every workspace. An exception of the handler is logged by pygls and
\* the server goes on.
initialize ==
    /\ ~Initialized
    /\ \E settings \in ClientSettings :
         Configure(update_workspace_settings(WORKSPACE_SETTINGS, settings))
    /\ UNCHANGED <<GLOBAL_SETTINGS, DMYPY_ARGS, reported_file_paths, uuids, displayed,
                   recorded_by, unit_vars>>

\* the documents of the workspace folders the client sent with initialize
ClientDocuments ==
    UNION {FolderDocuments(key) : key \in DOMAIN WORKSPACE_SETTINGS.map}

\* the document the client has open: it opens one document at a time, saves
\* it any number of times and closes it before it opens another one
IsOpen(document) ==
    run.handler \in {"didOpen", "didSave"} /\ run.document = document

NoneOpen == run.handler \in {"initialize", "didClose"}

\* the tool's possible answers to the version probe of a lint run with
\* these settings; only one when no probe runs
SettingsProbes(document, settings) ==
    IF linting_helper(document, WORKSPACE_SETTINGS, GLOBAL_SETTINGS,
                      MYPY_INFO_TABLE, DMYPY_ARGS, uuids,
                      reported_file_paths, OSError, OSError).skipped
       \/ settings.workspaceFS \in DOMAIN MYPY_INFO_TABLE
    THEN {OSError}
    ELSE ProbeReplies(ProbeArgv(settings))

LintProbes(document) ==
    SettingsProbes(document,
                   get_settings_by_document(WORKSPACE_SETTINGS, GLOBAL_SETTINGS, document))

\* the tool's possible answers to the check run of a lint run; only one
\* when no check runs
LintReplies(document, probe) ==
    IF linting_helper(document, WORKSPACE_SETTINGS, GLOBAL_SETTINGS,
                      MYPY_INFO_TABLE, DMYPY_ARGS, uuids,
                      reported_file_paths, probe, OSError).checked
    THEN CheckReplies ELSE {OSError}

\* the history after a run of the workspace key that reported the paths
RecordedBy(recorded, key, paths) ==
    [p \in (DOMAIN recorded) \cup paths |->
        (IF p \in DOMAIN recorded THEN recorded[p] ELSE {})
            \cup (IF p \in paths THEN {key} ELSE {})]

\* the paths a lint run with these settings recorded
RecordedPaths(settings, did) ==
    IF settings.reportingScope = "workspace"
    THEN {did.parse_results[k].path : k \in 1..Len(did.parse_results)}
    ELSE {}

\* the module state and the client's view a lint run leaves, did being what
\* _linting_helper did
LintedState(handler, document, did) ==
    /\ MYPY_INFO_TABLE' = did.state.table
    /\ DMYPY_ARGS' = did.state.dmypy
    /\ uuids' = did.state.uuids
    /\ reported_file_paths' = did.state.reported
    /\ displayed' = Deliver(displayed, did.publishes)
    /\ run' = Run(handler, document, did, reported_file_paths, displayed)
    /\ recorded_by' =
         RecordedBy(recorded_by,
                    get_settings_by_document(WORKSPACE_SETTINGS, GLOBAL_SETTINGS,
                                             document).workspaceFS,
                    RecordedPaths(get_settings_by_document(WORKSPACE_SETTINGS,
                                                           GLOBAL_SETTINGS, document),
                                  did))
    /\ WORKSPACE_SETTINGS' = SettingsAfter(WORKSPACE_SETTINGS, did.invoked)
    /\ UNCHANGED GLOBAL_SETTINGS

\* the state a lint run leaves
Linted(handler, document, did) ==
    /\ LintedState(handler, document, did)
    /\ UNCHANGED unit_vars

\* did_open and did_save: both call _linting_helper on the document
Lint(handler, document, probe, reply) ==
    Linted(handler, document,
           linting_helper(document, WORKSPACE_SETTINGS, GLOBAL_SETTINGS,
                          MYPY_INFO_TABLE, DMYPY_ARGS, uuids,
                          reported_file_paths, probe, reply))

did_open ==
    /\ NoneOpen
    /\ \E document \in ClientDocuments : \E probe \in LintProbes(document) :
         \E reply \in LintReplies(document, probe) : Lint("didOpen", document, probe, reply)

did_save ==
    \E document \in ClientDocuments :
        /\ IsOpen(document)
        /\ \E probe \in LintProbes(document) : \E reply \in LintReplies(document, probe) :
             Lint("didSave", document, probe, reply)

\* did_close without the reportingScope test
CloseNotifications_any_scope(settings, document) == clear_diagnostics(document)

\* lines 180-183: the notifications of did_close
CloseNotifications(settings, document) ==
    IF settings.reportingScope = "file" THEN clear_diagnostics(document) ELSE <<>>

did_close ==
    /\ \E document \in ClientDocuments :
         /\ IsOpen(document)
         /\ LET settings == get_settings_by_document(WORKSPACE_SETTINGS, GLOBAL_SETTINGS,
                                                     document)
                publishes == CloseNotifications(settings, document)
            IN  /\ displayed' = Deliver(displayed, publishes)
                /\ run' = Run("didClose", document, [NoRun EXCEPT !.publishes = publishes],
                              reported_file_paths, displayed)
    /\ UNCHANGED <<WORKSPACE_SETTINGS, GLOBAL_SETTINGS, MYPY_INFO_TABLE, DMYPY_ARGS,
                   reported_file_paths, uuids, recorded_by, unit_vars>>

\* the tool's possible answers to a version probe for these settings; only
\* one when no probe runs
TableProbes(settings, INFO) ==
    IF settings.workspaceFS \in DOMAIN INFO THEN {OSError}
    ELSE ProbeReplies(ProbeArgv(settings))

\* the tool's possible answers to a dmypy command for these settings; only
\* one for a tool that is no daemon, to which no command is sent
CommandReplies(settings) ==
    IF ToolBanner(ProbeArgv(settings)) = "dmypy" THEN DaemonReplies ELSE {OSError}

\* the tool's possible answers to the version probes of on_exit or
\* on_shutdown, one for each workspace
StopProbes(WS, INFO) ==
    {probes \in InitProbes(WS) :
        \A k \in 1..Len(WS.order) : probes[k] \in TableProbes(WS.map[WS.order[k]], INFO)}

\* the tool's possible answers to the commands of on_exit or on_shutdown,
\* one for each workspace
StopReplies(WS) ==
    {replies \in [1..Len(WS.order) -> DaemonReplies] :
        \A k \in 1..Len(WS.order) : replies[k] \in CommandReplies(WS.map[WS.order[k]])}

\* an exception that left a handler
Raised(name) == [raises |-> name]

\* the state on_exit or on_shutdown leaves, did being what the loop did
Stopped(handler, did) ==
    /\ MYPY_INFO_TABLE' = did.table
    /\ DMYPY_ARGS' = did.dmypy
    /\ uuids' = did.uuids
    /\ run' = Run(handler, None,
                  [NoRun EXCEPT !.invoked = did.invoked, !.logged = did.logged,
                                !.result = IF did.raised # NoStr
                                           THEN Raised(did.raised) ELSE None],
                  reported_file_paths, displayed)
    /\ WORKSPACE_SETTINGS' = SettingsAfter(WORKSPACE_SETTINGS, did.invoked)
    /\ UNCHANGED <<GLOBAL_SETTINGS, reported_file_paths,
                   displayed, recorded_by, unit_vars>>

\* lines 442-450 (command kill) and 453-461 (command stop)
StopDaemons(handler, command) ==
    \E probes \in StopProbes(WORKSPACE_SETTINGS, MYPY_INFO_TABLE) :
        \E replies \in StopReplies(WORKSPACE_SETTINGS) :
            Stopped(handler,
                    stop_daemons(WORKSPACE_SETTINGS, 1, command, MYPY_INFO_TABLE,
                                 DMYPY_ARGS, uuids, probes, replies))

\* exit: the last message the server handles
on_exit ==
    /\ Initialized /\ run.handler # "exit"
    /\ StopDaemons("exit", "kill")

\* shutdown: the client then sends exit only
on_shutdown ==
    /\ Initialized /\ run.handler \notin {"shutdown", "exit"}
    /\ StopDaemons("shutdown", "stop")

Next == initialize \/ did_open \/ did_save \/ did_close \/ on_exit \/ on_shutdown

Spec == Init /\ [][Next]_vars

\* ------------------------------------------------------------------------
\* A client with two workspace folders
\* ------------------------------------------------------------------------
\* the settings list of a client with the folders /w1 and /w2, both in
\* workspace scope
TwoRootSettings ==
    {<<ClientSetting(Root1, "workspace", FALSE, <<GenPattern>>),
       ClientSetting(Root2, "workspace", FALSE, <<>>)>>}

\* initialize with the settings of two workspace folders
initialize_two ==
    /\ ~Initialized
    /\ \E settings \in TwoRootSettings :
         Configure(update_workspace_settings(WORKSPACE_SETTINGS, settings))
    /\ UNCHANGED <<GLOBAL_SETTINGS, DMYPY_ARGS, reported_file_paths, uuids, displayed,
                   recorded_by, unit_vars>>

NextTwo == initialize_two \/ did_open \/ did_save \/ did_close

SpecTwo == Init /\ [][NextTwo]_vars

\* ------------------------------------------------------------------------
\* Daemons: two workspace folders, each with or without preferDaemon, and
\* the commands sent to their daemons
\* ------------------------------------------------------------------------
\* the daemonStatusFile a user may configure: none, or a path
StatusFileSettings == {NoStr, "/home/u/dmypy.json"}

DaemonSettings ==
    {<<[ClientSetting(Root1, "file", d1, <<GenPattern>>)
            EXCEPT !.daemonStatusFile = f1],
       ClientSetting(Root2, "file", d2, <<>>)>> :
        d1 \in BOOLEAN, d2 \in BOOLEAN, f1 \in StatusFileSettings}

\* initialize with the settings of the two folders
initialize_daemons ==
    /\ ~Initialized
    /\ \E settings \in DaemonSettings :
         Configure(update_workspace_settings(WORKSPACE_SETTINGS, settings))
    /\ UNCHANGED <<GLOBAL_SETTINGS, DMYPY_ARGS, reported_file_paths, uuids, displayed,
                   recorded_by, unit_vars>>

\* the commands _run_dmypy_command is called with; the last one is none of
\* dmypy
CalledCommands == {"stop", "run", "purge"}

\* the state a call of _run_dmypy_command leaves, did being what it did
DmypyCalled(settings, command, did) ==
    /\ MYPY_INFO_TABLE' = did.table
    /\ DMYPY_ARGS' = did.dmypy
    /\ uuids' = did.uuids
    /\ dmypy_call' = [settings |-> settings, command |-> command,
                       raised |-> did.raised, result |-> did.result,
                       invoked |-> did.invoked, logged |-> did.logged,
                       table |-> did.table]
    /\ WORKSPACE_SETTINGS' = SettingsAfter(WORKSPACE_SETTINGS, did.invoked)
    /\ UNCHANGED <<GLOBAL_SETTINGS, reported_file_paths,
                   displayed, run, recorded_by, parser_vars, call_vars, loop_vars,
                   resolve_vars>>

\* _run_dmypy_command is called with these settings
DmypyCall(settings) ==
    \E command \in CalledCommands : \E probe \in TableProbes(settings, MYPY_INFO_TABLE) :
        \E reply \in CommandReplies(settings) :
            DmypyCalled(settings, command,
                        run_dmypy_command(<<>>, settings, command, MYPY_INFO_TABLE,
                                          DMYPY_ARGS, uuids, probe, reply))

\* _run_dmypy_command is called for a workspace
dmypy_command ==
    /\ Initialized /\ run.handler # "exit"
    /\ \E k \in 1..Len(WORKSPACE_SETTINGS.order) :
         DmypyCall(WORKSPACE_SETTINGS.map[WORKSPACE_SETTINGS.order[k]])

NextDaemon == initialize_daemons \/ dmypy_command \/ on_exit \/ on_shutdown

SpecDaemon == Init /\ [][NextDaemon]_vars

\* ------------------------------------------------------------------------
\* The handlers under the message loop
\* ------------------------------------------------------------------------
\* the notifications the client sends at most
MaxEvents == 3

\* the document the client edits
EditedDocument == Document(from_fs_path(PathA))

\* the client sends didOpen for the document and then didSave after each
\* edit, whether or not the server has answered the earlier ones
receive ==
    /\ Initialized /\ Len(inbox) + handled.id < MaxEvents
    /\ inbox' = Append(inbox,
                       [id |-> Len(inbox) + handled.id + 1,
                        handler |-> IF Len(inbox) + handled.id = 0
                                    THEN "didOpen" ELSE "didSave",
                        document |-> EditedDocument,
                        behind |-> Len(inbox)])
    /\ UNCHANGED <<server_vars, parser_vars, daemon_vars, call_vars, handled,
                   resolve_vars>>

\* the handler of the i-th pending notification runs to its end
Handle(i) ==
    /\ i \in Ready(inbox)
    /\ \E probe \in LintProbes(inbox[i].document) :
         \E reply \in LintReplies(inbox[i].document, probe) :
            LintedState(inbox[i].handler, inbox[i].document,
                        linting_helper(inbox[i].document, WORKSPACE_SETTINGS,
                                       GLOBAL_SETTINGS, MYPY_INFO_TABLE, DMYPY_ARGS,
                                       uuids, reported_file_paths, probe, reply))
    /\ inbox' = Without(inbox, i)
    /\ handled' = inbox[i]
    /\ UNCHANGED <<parser_vars, daemon_vars, call_vars, resolve_vars>>

\* the loop: a handler of a pending notification runs
handle == \E i \in 1..Len(inbox) : Handle(i)

NextLoop == initialize \/ receive \/ handle

SpecLoop == Init /\ [][NextLoop]_vars

\* ------------------------------------------------------------------------
\* get_cwd alone
\* ------------------------------------------------------------------------
\* the file system root, and a package directory of /w1 with its own
\* configuration file
FsRoot == <<>>
PkgDir == <<"w1", "pkg">>

\* the values of the cwd setting: the variables get_cwd knows, plain
\* directories, and text with a variable of the file that get_cwd does not
\* know and so takes for a directory
CwdSettings ==
    {CwdWorkspaceFolder, CwdFileDirname, CwdNearestConfig,
     CwdLiteral(<<"custom", "path">>), CwdLiteral(<<"${file}", "extra">>),
     CwdLiteral(<<"${relativeFile}">>)}

\* the workspace folders get_cwd is called for
CwdWorkspaces == {FsRoot, Root1, Root2, PkgDir}

\* the settings get_cwd is called with
GetCwdSettings ==
    {[WithWorkspaceFS(ClientSetting(root, "file", FALSE, <<>>), root)
         EXCEPT !.cwd = cwd] : root \in CwdWorkspaces, cwd \in CwdSettings}

\* the documents get_cwd is called with
GetCwdDocuments ==
    {Document(from_fs_path(p)) :
        p \in {PathA, PathC, <<"top.py">>, <<"w1", "pkg", "m.py">>,
               <<"w1", "pkg", "sub", "m.py">>, <<"w2", "src", "d.py">>}}

\* get_cwd is called, with a document or with None
get_cwd_called ==
    /\ \E settings \in GetCwdSettings :
         \/ cwd_call' = [settings |-> settings, has_document |-> FALSE,
                         document |-> None,
                         result |-> get_cwd(settings, FALSE, None)]
         \/ \E document \in GetCwdDocuments :
               cwd_call' = [settings |-> settings, has_document |-> TRUE,
                            document |-> document,
                            result |-> get_cwd(settings, TRUE, document)]
    /\ UNCHANGED <<server_vars, parser_vars, daemon_vars, lock_vars, loop_vars,
                   resolve_vars>>

NextCwd == get_cwd_called

SpecCwd == Init /\ [][NextCwd]_vars

\* ------------------------------------------------------------------------
\* _get_settings_by_document alone
\* ------------------------------------------------------------------------
\* the folders a client may have open: the file system root, /w1, the
\* package directory inside /w1, and /w2
ResolveRoots == {FsRoot, Root1, PkgDir, Root2}

\* the settings lists of initialize: one folder, or two in either order
NestedSettings ==
    {<<ClientSetting(r1, "file", d1, <<>>)>> : r1 \in ResolveRoots, d1 \in BOOLEAN}
        \cup {<<ClientSetting(pair[1], "file", FALSE, <<>>),
                ClientSetting(pair[2], "workspace", TRUE, <<>>)>> :
                  pair \in {p \in ResolveRoots \X ResolveRoots : p[1] # p[2]}}

\* initialize with the settings of these folders
initialize_nested ==
    /\ ~Initialized
    /\ \E settings \in NestedSettings :
         Configure(update_workspace_settings(WORKSPACE_SETTINGS, settings))
    /\ UNCHANGED <<GLOBAL_SETTINGS, DMYPY_ARGS, reported_file_paths, uuids, displayed,
                   recorded_by, unit_vars>>

\* the documents whose settings are asked for: files of /w1 (one through a
\* symbolic link), of /w1/pkg, of /w2, of / and of a directory that is in
\* none of the folders but /
ResolveDocuments ==
    {Document(from_fs_path(p)) :
        p \in {PathA, PathLA, PathC, <<"top.py">>, <<"w1", "pkg", "m.py">>,
               <<"w1", "pkg", "sub", "m.py">>, <<"other", "x.py">>}}

\* _get_settings_by_document is called for a document
get_settings_called ==
    /\ Initialized
    /\ \E document \in ResolveDocuments :
         settings_call' =
             [document |-> document,
              settings |-> get_settings_by_document(WORKSPACE_SETTINGS, GLOBAL_SETTINGS,
                                                    document),
              stored |-> WORKSPACE_SETTINGS]
    /\ UNCHANGED <<server_vars, parser_vars, daemon_vars, call_vars, loop_vars>>

NextResolve == initialize_nested \/ get_settings_called

SpecResolve == Init /\ [][NextResolve]_vars

\* ------------------------------------------------------------------------
\* run_module and run_api, called by the threads of the server
\* ------------------------------------------------------------------------
\* the calls a thread makes at most
MaxCalls == 2

\* a directory the process may not enter: os.chdir to it raises
\* PermissionError, an OSError
Restricted == <<"restricted">>
Inaccessible == {Restricted}

\* the cwd argument of the calls
RunDirs == {SERVER_CWD, Root1, Root2, Restricted}

\* what the code that _run_module or _run_api runs does: it returns, it
\* ends with SystemExit, which both catch, or it raises something else
BodyOutcomes == {"returns", "SystemExit", "raises"}

\* the thread goes on as rec says; no step of a call touches the state of
\* the server
Goes(t, rec) ==
    /\ threads' = [threads EXCEPT ![t] = rec]
    /\ UNCHANGED <<server_vars, parser_vars, daemon_vars, cwd_call, loop_vars,
                   resolve_vars>>

\* a thread calls run_module(module, argv, use_stdin, cwd) or run_api, whose
\* statements are the same, and comes to `with CWD_LOCK`
call(t) ==
    /\ threads[t].pc = "idle" /\ threads[t].calls < MaxCalls
    /\ \E cwd \in RunDirs, body \in BodyOutcomes :
         Goes(t, [NotCalled EXCEPT !.pc = "waiting", !.calls = threads[t].calls + 1,
                                   !.cwd = cwd, !.body = body])
    /\ UNCHANGED <<os_cwd, CWD_LOCK>>

\* a lock that lets every thread in
LockFree_always(lock) == TRUE

\* threading.Lock: it is acquired only when no thread holds it
LockFree(lock) == lock = NoThread

\* `with CWD_LOCK:` entered
acquire(t) ==
    /\ threads[t].pc = "waiting" /\ LockFree(CWD_LOCK)
    /\ CWD_LOCK' = t
    /\ Goes(t, [threads[t] EXCEPT !.pc = "locked", !.entry_cwd = os_cwd])
    /\ UNCHANGED os_cwd

\* `if is_same_path(os.getcwd(), cwd):`
compare(t) ==
    /\ threads[t].pc = "locked"
    /\ Goes(t, [threads[t] EXCEPT !.pc = IF is_same_path(os_cwd, threads[t].cwd)
                                         THEN "run_same" ELSE "chdir"])
    /\ UNCHANGED <<os_cwd, CWD_LOCK>>

\* change_cwd up to its yield: os.chdir(new_cwd). Its OSError is caught
\* nowhere: it leaves change_cwd and run_module, by way of `with CWD_LOCK`
chdir(t) ==
    /\ threads[t].pc = "chdir"
    /\ IF threads[t].cwd \in Inaccessible
       THEN /\ Goes(t, [threads[t] EXCEPT !.pc = "unlock", !.raised = "OSError"])
            /\ UNCHANGED os_cwd
       ELSE /\ Goes(t, [threads[t] EXCEPT !.pc = "run_changed"])
            /\ os_cwd' = threads[t].cwd
    /\ UNCHANGED CWD_LOCK

\* where the thread goes after _run_module: an exception thrown into
\* change_cwd at its yield, which is in no try statement, leaves it before
\* os.chdir(SERVER_CWD)
AfterBody(rec) ==
    IF rec.body = "raises" THEN [rec EXCEPT !.pc = "unlock", !.raised = "Exception"]
    ELSE IF rec.pc = "run_changed" THEN [rec EXCEPT !.pc = "restore"]
    ELSE [rec EXCEPT !.pc = "unlock"]

\* `return _run_module(...)`, in the directory the process is in
run_body(t) ==
    /\ threads[t].pc \in {"run_same", "run_changed"}
    /\ Goes(t, AfterBody([threads[t] EXCEPT !.body_ran = TRUE, !.body_cwd = os_cwd]))
    /\ UNCHANGED <<os_cwd, CWD_LOCK>>

\* change_cwd after its yield: os.chdir(SERVER_CWD)
restore(t) ==
    /\ threads[t].pc = "restore"
    /\ os_cwd' = SERVER_CWD
    /\ Goes(t, [threads[t] EXCEPT !.pc = "unlock"])
    /\ UNCHANGED CWD_LOCK

\* `with CWD_LOCK:` left, by return or by exception; the call is over
release(t) ==
    /\ threads[t].pc = "unlock"
    /\ CWD_LOCK' = NoThread
    /\ Goes(t, [threads[t] EXCEPT !.pc = "idle", !.exit_cwd = os_cwd])
    /\ UNCHANGED os_cwd

\* a step of a thread that is in its call
proceed(t) == compare(t) \/ chdir(t) \/ run_body(t) \/ restore(t) \/ release(t)

NextLock ==
    \E t \in Threads :
        \/ call(t)
        \/ acquire(t)
        \/ compare(t)
        \/ chdir(t)
        \/ run_body(t)
        \/ restore(t)
        \/ release(t)

SpecLock == Init /\ [][NextLock]_vars

\* the scheduler lets every thread run that can take a step, and a lock that
\* stays free is taken by a thread that waits for it
FairSpecLock ==
    /\ SpecLock
    /\ \A t \in Threads : WF_lock_vars(acquire(t)) /\ WF_lock_vars(proceed(t))

\* ------------------------------------------------------------------------
\* The parser alone: the tool prints one more line and the text so far is
\* parsed
\* ------------------------------------------------------------------------
\* the most lines the tool prints
MaxOutput == 3

LocA(type, message, code) == DiagLine(PathA, <<3>>, <<7>>, NoInt, NoInt, type, message, code)

NoteA1 == LocA("note", "first", NoStr)
NoteA2 == LocA("note", "second", NoStr)
NoteB == DiagLine(PathA, <<5>>, <<7>>, NoInt, NoInt, "note", "other", NoStr)
SeeA1 == LocA("note", "See https://mypy.readthedocs.io/en/stable/one.html", NoStr)
SeeA2 == LocA("note", "See https://mypy.readthedocs.io/en/stable/two.html", NoStr)
LineZero == DiagLine(PathA, <<0>>, <<0>>, NoInt, NoInt, "error", "zero", NoStr)
LineWarn == LocA("warning", "loose", NoStr)
LineRange == DiagLine(PathA, <<3>>, <<7>>, <<4>>, <<2>>, "warning", "ranged", "misc")
LineRangeZero == DiagLine(PathA, <<0>>, <<1>>, <<0>>, <<4>>, "error", "top", NoStr)
LineReversed == DiagLine(PathA, <<3>>, <<7>>, <<1>>, <<2>>, "error", "reversed", NoStr)

\* the white space a line may end with
TrailingSpaces == {" ", "  ", "   ", "\t"}

ParserLines ==
    {LineSuccess, LineA, LineB, NoteA1, NoteA2, NoteB, SeeA1, SeeA2, LineZero, LineWarn,
     LineRange, LineRangeZero, LineReversed}
        \cup {WithTrailing(LineA, space) : space \in TrailingSpaces}

\* the severity settings: the default one, and one with an entry for a code,
\* no entry for type note and a name that is no severity
CustomSeverity ==
    [k \in {"misc", "error", "warning"} |->
        IF k = "misc" THEN "Hint" ELSE IF k = "error" THEN "Warning" ELSE "Loud"]

SeveritySettings == {DefaultSeverity, CustomSeverity}

InitParser ==
    /\ Loaded
    /\ tool_output = <<>>
    /\ severity_setting \in SeveritySettings
    /\ parsed = <<>>
    /\ dmypy_call = None

\* result.stdout has one more line; lines 240-243 parse it
parse_output ==
    /\ Len(tool_output) < MaxOutput
    /\ \E line \in ParserLines :
         /\ tool_output' = Append(tool_output, line)
         /\ parsed' = parse_output_using_regex(Append(tool_output, line), severity_setting)
    /\ UNCHANGED <<severity_setting, server_vars, daemon_vars, call_vars, loop_vars,
                   resolve_vars>>

NextParser == parse_output

ParserSpec == InitParser /\ [][NextParser]_vars

\* ------------------------------------------------------------------------
\* The parser on lines with and without a code, printed plain or in quotes
\* ------------------------------------------------------------------------
\* a note that carries a code
NoteCoded == LocA("note", "untyped body", "annotation-unchecked")

\* a line of each type word with and without a code, notes with and
\* without a link
CodedLines == {LineSuccess, LineA, LineWarn, LineRange, NoteA1, SeeA1, NoteCoded}

\* the line wrapped in single quotes
Quoted(line) == [line EXCEPT !.quoted = TRUE]

\* the text without the quotes around its lines
Plain(text) == [k \in 1..Len(text) |-> Unquote(text[k])]

AllPlain(text) == \A k \in 1..Len(text) : ~text[k].quoted

AllQuoted(text) == \A k \in 1..Len(text) : text[k].quoted

\* lines 240-243 on a text with one more line
Parsed(text) ==
    /\ tool_output' = text
    /\ parsed' = parse_output_using_regex(text, severity_setting)
    /\ UNCHANGED <<severity_setting, server_vars, daemon_vars, call_vars, loop_vars,
                   resolve_vars>>

\* the tool prints its lines plain: the text has one more line
parse_plain ==
    /\ Len(tool_output) < MaxOutput /\ AllPlain(tool_output)
    /\ \E line \in CodedLines : Parsed(Append(tool_output, line))

\* the tool prints every line in single quotes: the text has one more line
parse_quoted ==
    /\ Len(tool_output) < MaxOutput /\ AllQuoted(tool_output)
    /\ \E line \in CodedLines : Parsed(Append(tool_output, Quoted(line)))

NextCoded == parse_plain \/ parse_quoted

SpecCoded == InitParser /\ [][NextCoded]_vars

\* ------------------------------------------------------------------------
\* Properties
\* ------------------------------------------------------------------------
\* the last handler call was a didOpen or a didSave
IsLintRun == run.handler \in {"didOpen", "didSave"}

RunSettings == get_settings_by_document(WORKSPACE_SETTINGS, GLOBAL_SETTINGS, run.document)

RunScope == RunSettings.reportingScope

\* the text the tool printed in the last call
RunOutput == IF run.result = None THEN <<>> ELSE run.result.stdout

\* the files the tool's output has a diagnostic line for
OutputFiles ==
    {absolute_path(get_group_dict(Unquote(RunOutput[k])).filepath) :
        k \in {j \in 1..Len(RunOutput) : RunOutput[j].match}}

\* the last call sent an empty diagnostics array for the uri
ClearedInRun(uri) == \E k \in 1..Len(run.publishes) : run.publishes[k] = Publish(uri, <<>>)

\* the last call sent something for the uri
PublishedInRun(uri) == \E k \in 1..Len(run.publishes) : run.publishes[k].uri = uri

\* an exception was raised in the last lint run: the version probe failed,
\* or the check run could not be started
RunRaised ==
    /\ ~run.skipped
    /\ \/ RunSettings.workspaceFS \notin DOMAIN MYPY_INFO_TABLE
       \/ run.checked /\ run.result = None

\* the tool ran the check and returned its result
ToolReturned == run.checked /\ run.result # None

StdlibDocument == Document(from_fs_path(PathStd))
IgnoredDocument == Document(from_fs_path(PathGen))

\* C1: in workspace scope, every file reported by an earlier run that has no
\* diagnostic in the output of the current run gets an empty diagnostics
\* array in the current run, whatever the tool printed.
C1_FixedFilesCleared ==
    (IsLintRun /\ RunScope = "workspace" /\ ToolReturned) =>
        \A p \in run.reported_before :
            p \notin OutputFiles => ClearedInRun(from_fs_path(p))

\* C2: in file scope, a lint run in which the tool reports no diagnostic for
\* the file of the document sends an empty diagnostics array for the uri of
\* the document.
C2_EmptyPublishWhenNothingReported ==
    (/\ IsLintRun /\ RunScope = "file" /\ ~run.caught
     /\ ~\E f \in OutputFiles : Resolve(f) = Resolve(run.document.path))
        => ClearedInRun(run.document.uri)

C2_Witness ==
    /\ IsLintRun /\ RunScope = "file" /\ ToolReturned
    /\ OutputFiles = {PathB}
    /\ run.document.path = PathA
    /\ run.publishes = <<Publish(run.document.uri, <<>>)>>

\* the diagnostics the parser built for the file of the document
RECURSIVE DiagnosticsFor(_, _)
DiagnosticsFor(results, path) ==
    IF results = <<>> THEN <<>>
    ELSE (IF Resolve(Head(results).path) = Resolve(path)
          THEN Head(results).diagnostics ELSE <<>>)
         \o DiagnosticsFor(Tail(results), path)

\* C3: in file scope a lint run publishes only to the uri of the document,
\* and what it publishes is exactly the list of the diagnostics the tool
\* reported for the file of the document.
C3_ExactlyDocumentDiagnostics ==
    (IsLintRun /\ RunScope = "file" /\ ~run.caught) =>
        /\ \A k \in 1..Len(run.publishes) : run.publishes[k].uri = run.document.uri
        /\ Deliver(EmptyDict, run.publishes)
             = Deliver(EmptyDict,
                       <<Publish(run.document.uri,
                                 DiagnosticsFor(run.parse_results, run.document.path))>>)

CheckArgv == run.invoked[Len(run.invoked)].argv

\* C5: a lint run whose version probe fails still runs the check, with
\* module mypy and without --show-error-end, and publishes.
C5_LintsWithoutVersion ==
    (/\ IsLintRun /\ ~run.skipped
     /\ RunSettings.workspaceFS \notin DOMAIN MYPY_INFO_TABLE)
        => /\ run.checked /\ ~run.caught
           /\ Contains(CheckArgv, "mypy")
           /\ ~Contains(CheckArgv, "--show-error-end")

\* C6: a lint run in which an exception is raised ends in the except clause,
\* which logs the error; the run publishes nothing, so the client's view is
\* the one it had before the run.
C6_ExceptionCaughtNothingPublished ==
    (IsLintRun /\ RunRaised) =>
        /\ run.caught
        /\ run.logged # <<>> /\ run.logged[Len(run.logged)] = "Linting failed with error"
        /\ run.publishes = <<>>
        /\ displayed = run.displayed_before

C6_Witness ==
    /\ IsLintRun /\ run.checked /\ run.result = None
    /\ run.caught
    /\ run.document.uri \in DOMAIN displayed

\* C7: did_close sends exactly one empty diagnostics array, for the closing
\* document, in file scope; in workspace scope it sends nothing and the
\* client's view stays; it changes no state of the server in either scope.
C7_CloseClearsOnlyInFileScope ==
    [][run'.handler = "didClose" =>
        /\ RunScope' = "file" => run'.publishes = <<Publish(run'.document.uri, <<>>)>>
        /\ RunScope' = "workspace" => (run'.publishes = <<>> /\ displayed' = displayed)
        /\ UNCHANGED <<WORKSPACE_SETTINGS, GLOBAL_SETTINGS, MYPY_INFO_TABLE, DMYPY_ARGS,
                       reported_file_paths, uuids>>]_vars

C7_Witness ==
    /\ run.handler = "didClose" /\ RunScope = "workspace"
    /\ run.publishes = <<>>
    /\ run.document.uri \in DOMAIN displayed

\* C8 as stated: a document under a site path, or matching an ignore
\* pattern, is never linted and gets an empty diagnostics array, in every
\* reporting scope.
C8_SkippedInEveryScope ==
    (IsLintRun /\ run.document \in {StdlibDocument, IgnoredDocument}) =>
        /\ run.invoked = <<>>
        /\ run.publishes = <<Publish(run.document.uri, <<>>)>>

\* C8 amended: in file scope a document under a site path, or matching an
\* ignore pattern, is never linted and gets exactly one empty diagnostics
\* array.
C8_SkippedInFileScope ==
    (IsLintRun /\ RunScope = "file"
        /\ run.document \in {StdlibDocument, IgnoredDocument}) =>
        /\ run.invoked = <<>>
        /\ run.publishes = <<Publish(run.document.uri, <<>>)>>

C8_Witness ==
    /\ IsLintRun /\ RunScope = "file" /\ run.document = StdlibDocument
    /\ run.skipped /\ run.invoked = <<>>

\* C9: a lint run on a notebook cell executes the tool not at all and sends
\* exactly one empty diagnostics array for the uri of the cell, in both
\* scopes.
C9_NotebookCellNeverLinted ==
    (IsLintRun /\ run.document.uri = NotebookCellUri) =>
        /\ run.invoked = <<>>
        /\ run.publishes = <<Publish(NotebookCellUri, <<>>)>>

C9_Witness ==
    /\ IsLintRun /\ run.document.uri = NotebookCellUri /\ RunScope = "workspace"
    /\ run.publishes = <<Publish(NotebookCellUri, <<>>)>>
    /\ reported_file_paths # {}

\* the uris of the files reported now or by an earlier run
KnownUris == {from_fs_path(p) : p \in OutputFiles \cup run.reported_before}

IsNoteLine(i) == tool_output[i].match /\ tool_output[i].type = "note"

\* the location string of the i-th line
LocationText(i) ==
    Location(tool_output[i].filepath, tool_output[i].line, tool_output[i].char,
             tool_output[i].end_line, tool_output[i].end_char)

\* the i-th line goes on the run of notes of the line before it
ContinuesRun(i) ==
    /\ i > 1
    /\ IsNoteLine(i - 1) /\ IsNoteLine(i)
    /\ LocationText(i - 1) = LocationText(i)

\* the i-th line starts a diagnostic
GroupStart(i) == tool_output[i].match /\ ~ContinuesRun(i)

\* the last line of the run that holds the i-th line
RECURSIVE RunEnd(_)
RunEnd(i) == IF i < Len(tool_output) /\ ContinuesRun(i + 1) THEN RunEnd(i + 1) ELSE i

\* the message of the diagnostic that starts with the i-th line
GroupMessage(i) ==
    IF IsNoteLine(i)
    THEN JoinLines([k \in 1..(RunEnd(i) - i + 1) |-> tool_output[i + k - 1].message])
    ELSE get_group_dict(tool_output[i]).message

\* the messages of the diagnostics of a file, from the i-th line on
RECURSIVE ExpectedMessages(_, _)
ExpectedMessages(i, path) ==
    IF i > Len(tool_output) THEN <<>>
    ELSE (IF GroupStart(i) /\ absolute_path(tool_output[i].filepath) = path
          THEN <<GroupMessage(i)>> ELSE <<>>)
         \o ExpectedMessages(i + 1, path)

ParsedMessages(path) ==
    [k \in 1..Len(DiagnosticsOf(parsed, path)) |-> DiagnosticsOf(parsed, path)[k].message]

\* the files the text has a diagnostic line for
TextPaths ==
    {absolute_path(tool_output[i].filepath) :
        i \in {j \in 1..Len(tool_output) : tool_output[j].match}}

\* C13: every maximal run of consecutive notes with one location string
\* gives exactly one diagnostic, whose message is the messages of the notes
\* joined by newlines in their order; every other matching line gives one
\* diagnostic with its own message only.
C13_NotesCollapse ==
    /\ Keys(parsed) = TextPaths
    /\ \A path \in TextPaths : ParsedMessages(path) = ExpectedMessages(1, path)

C13_Witness ==
    /\ tool_output = <<NoteA1, NoteA2, NoteB>>
    /\ ParsedMessages(PathA) = <<"first\nsecond", "other">>

\* the lines of the run starting at the i-th line that start with the
\* see-also prefix
SeeLines(i) ==
    {k \in i..RunEnd(i) : StartsWith(tool_output[k].message, SEE_HREF_PREFIX)}

FirstOf(S) == CHOOSE k \in S : \A other \in S : k <= other

\* the link of the diagnostic that starts with the i-th line
GroupHref(i) ==
    IF IsNoteLine(i)
    THEN IF SeeLines(i) = {} THEN NoStr
         ELSE SubSeq(tool_output[FirstOf(SeeLines(i))].message, SEE_PREFIX_LEN + 1,
                     Len(tool_output[FirstOf(SeeLines(i))].message))
    ELSE IF get_group_dict(tool_output[i]).code # NoStr
    THEN ERROR_CODE_BASE_URL \o get_group_dict(tool_output[i]).code
    ELSE NoStr

RECURSIVE ExpectedHrefs(_, _)
ExpectedHrefs(i, path) ==
    IF i > Len(tool_output) THEN <<>>
    ELSE (IF GroupStart(i) /\ absolute_path(tool_output[i].filepath) = path
          THEN <<GroupHref(i)>> ELSE <<>>)
         \o ExpectedHrefs(i + 1, path)

ParsedHrefs(path) ==
    [k \in 1..Len(DiagnosticsOf(parsed, path)) |->
        DiagnosticsOf(parsed, path)[k].code_description]

\* C14: the link of a diagnostic built from a group of notes is the text
\* after "See " of the first note of the group that starts with the
\* see-also prefix (none if no note of the group does); later notes of the
\* group do not replace it, and a diagnostic after the group never has the
\* link of the group.
C14_FirstSeeLinkOfGroup ==
    \A path \in TextPaths : ParsedHrefs(path) = ExpectedHrefs(1, path)

C14_Witness ==
    /\ tool_output = <<SeeA1, SeeA2, NoteB>>
    /\ ParsedHrefs(PathA) = <<"https://mypy.readthedocs.io/en/stable/one.html", NoStr>>

\* the severity name configured for a code and a type word
ConfiguredSeverity(code, type) ==
    IF code \in DOMAIN severity_setting THEN severity_setting[code]
    ELSE IF type \in DOMAIN severity_setting THEN severity_setting[type]
    ELSE "Error"

\* the severity of the diagnostic that starts with the i-th line: the one of
\* the line the diagnostic is built on, the last line of its run
GroupSeverity(i) ==
    LET data == get_group_dict(tool_output[RunEnd(i)])
        name == ConfiguredSeverity(data.code, data.type)
    IN  IF name \in {"Error", "Warning", "Information", "Hint"} THEN name
        ELSE "Information"

RECURSIVE ExpectedSeverities(_, _)
ExpectedSeverities(i, path) ==
    IF i > Len(tool_output) THEN <<>>
    ELSE (IF GroupStart(i) /\ absolute_path(tool_output[i].filepath) = path
          THEN <<GroupSeverity(i)>> ELSE <<>>)
         \o ExpectedSeverities(i + 1, path)

ParsedSeverities(path) ==
    [k \in 1..Len(DiagnosticsOf(parsed, path)) |-> DiagnosticsOf(parsed, path)[k].severity]

\* C15: the severity of every diagnostic is the configured severity of its
\* code when the severity map has the code, else the configured severity of
\* its type word, else Error; a name that is none of Error, Warning,
\* Information and Hint gives Information.
C15_SeverityResolution ==
    \A path \in TextPaths : ParsedSeverities(path) = ExpectedSeverities(1, path)

\* an error with a configured code, a warning and a note without a code
C15_Witness ==
    /\ severity_setting = CustomSeverity
    /\ tool_output = <<LineA, LineWarn, NoteA1>>
    /\ ParsedSeverities(PathA) = <<"Hint", "Information", "Error">>

\* every diagnostic the parser built
ParsedDiagnostics ==
    UNION {{parsed[k].diagnostics[n] : n \in 1..Len(parsed[k].diagnostics)} :
              k \in 1..Len(parsed)}

\* C16: every position of every diagnostic the parser builds has a line and
\* a character that are not negative; a reported column or line of 0 gives 0.
C16_PositionsNonNegative ==
    \A diagnostic \in ParsedDiagnostics :
        /\ diagnostic.range.start.line >= 0
        /\ diagnostic.range.start.character >= 0
        /\ diagnostic.range["end"].line >= 0
        /\ diagnostic.range["end"].character >= 0

\* the reported numbers of the line the diagnostic starting with the i-th
\* line is built on; a group of notes has one location
ReportedLine(i) == tool_output[i].line[1]

HasColumn(i) == tool_output[i].char # NoInt

ReportedChar(i) == tool_output[i].char[1]

HasEndRange(i) == tool_output[i].end_line # NoInt

ReportedEndLine(i) == tool_output[i].end_line[1]

ReportedEndChar(i) == tool_output[i].end_char[1]

\* the indexes of the lines that start a diagnostic of a file, in order
RECURSIVE GroupStarts(_, _)
GroupStarts(i, path) ==
    IF i > Len(tool_output) THEN <<>>
    ELSE (IF GroupStart(i) /\ absolute_path(tool_output[i].filepath) = path
          THEN <<i>> ELSE <<>>)
         \o GroupStarts(i + 1, path)

\* the n-th diagnostic of a file and the line it starts with
ParsedRange(path, n) == DiagnosticsOf(parsed, path)[n].range

StartIndex(path, n) == GroupStarts(1, path)[n]

Built(path) == 1..Len(GroupStarts(1, path))

NotAfter(p, q) ==
    \/ p.line < q.line
    \/ p.line = q.line /\ p.character <= q.character

\* C18: every diagnostic the parser builds from a line that matches the
\* grammar has a start that is not after its end.
C18_StartBeforeEnd ==
    \A diagnostic \in ParsedDiagnostics :
        NotAfter(diagnostic.range.start, diagnostic.range["end"])

\* C19 as stated: with an end range endLine:endChar the end of the diagnostic
\* is (endLine - 1, endChar); without one the end is the start.
C19_EndIsReportedEnd ==
    \A path \in TextPaths : \A n \in Built(path) :
        ParsedRange(path, n)["end"] =
            IF HasEndRange(StartIndex(path, n))
            THEN Position(ReportedEndLine(StartIndex(path, n)) - 1,
                          ReportedEndChar(StartIndex(path, n)))
            ELSE ParsedRange(path, n).start

\* C19: with an end range endLine:endChar the end of the diagnostic is
\* (endLine - 1, endChar), with line 0 for a reported end line of 0;
\* without an end range the end is the start.
C19_EndPosition ==
    \A path \in TextPaths : \A n \in Built(path) :
        ParsedRange(path, n)["end"] =
            IF HasEndRange(StartIndex(path, n))
            THEN Position(IF ReportedEndLine(StartIndex(path, n)) = 0 THEN 0
                          ELSE ReportedEndLine(StartIndex(path, n)) - 1,
                          ReportedEndChar(StartIndex(path, n)))
            ELSE ParsedRange(path, n).start

\* a line with an end range, a line without one, an end range on line 0
C19_Witness ==
    /\ tool_output = <<LineRange, LineA, LineRangeZero>>
    /\ ParsedRange(PathA, 1)["end"] = Position(3, 2)
    /\ ParsedRange(PathA, 2)["end"] = Position(2, 6)
    /\ ParsedRange(PathA, 3)["end"] = Position(0, 4)

\* the line without the white space after its last character
Stripped(line) == IF line.match THEN [line EXCEPT !.trailing = ""] ELSE line

StrippedOutput == [k \in 1..Len(tool_output) |-> Stripped(tool_output[k])]

\* C20: a line that ends in a code marker followed by one to three white
\* space characters parses to what the line without them parses to: the
\* code is extracted and the message has neither the marker, nor the two
\* spaces before it, nor the white space after it.
C20_TrailingWhitespaceIgnored ==
    parsed = parse_output_using_regex(StrippedOutput, severity_setting)

\* C11: no handler removes a path from _reported_file_paths, and a path
\* enters it only in a lint run in workspace scope whose output has at least
\* one diagnostic for the path.
C11_ReportedSetOnlyGrows ==
    [][/\ reported_file_paths \subseteq reported_file_paths'
       /\ \A path \in reported_file_paths' \ reported_file_paths :
            /\ run'.handler \in {"didOpen", "didSave"}
            /\ get_settings_by_document(WORKSPACE_SETTINGS, GLOBAL_SETTINGS,
                                        run'.document).reportingScope = "workspace"
            /\ path \in OutputFiles'
            /\ path \in Keys(run'.parse_results)
            /\ DiagnosticsOf(run'.parse_results, path) # <<>>]_vars

\* a run whose output does not name a file reported before, which stays in
\* the set, and names a file that enters it
C11_Witness ==
    /\ IsLintRun /\ RunScope = "workspace"
    /\ run.reported_before = {PathA}
    /\ OutputFiles = {PathB}
    /\ reported_file_paths = {PathA, PathB}

\* C12: a lint run in workspace scope triggered in a workspace sends an
\* empty diagnostics array from _reported_file_paths only for files that an
\* earlier run of the same workspace recorded, never for a file that only
\* runs of another workspace recorded.
C12_ClearsOnlyOwnWorkspaceFiles ==
    (IsLintRun /\ ~run.skipped /\ RunScope = "workspace" /\ RunOutput # <<>>)
        => \A path \in run.reported_before :
              (path \notin Keys(run.parse_results) /\ ClearedInRun(from_fs_path(path)))
                  => RunSettings.workspaceFS \in recorded_by[path]

SymlinkDocument == Document(from_fs_path(PathLA))

\* C21: is_same_path is true for the path through the symbolic link and the
\* real path of its target, in both orders, true for a path and itself and
\* false for the paths of two files; so a file-scope run on the document
\* opened through the link publishes to it the diagnostics the tool reports
\* under the real path.
C21_SamePathThroughSymlink ==
    /\ is_same_path(PathLA, PathA) /\ is_same_path(PathA, PathLA)
    /\ is_same_path(PathA, PathA) /\ ~is_same_path(PathA, PathB)
    /\ (/\ IsLintRun /\ RunScope = "file" /\ ToolReturned
        /\ run.document = SymlinkDocument /\ PathA \in OutputFiles)
           => \E k \in 1..Len(run.publishes) :
                 /\ run.publishes[k].uri = SymlinkDocument.uri
                 /\ run.publishes[k].diagnostics # <<>>

\* the last handler call was an exit or a shutdown
IsStopRun == run.handler \in {"exit", "shutdown"}

\* the dmypy command of the handler
StopCommand == IF run.handler = "exit" THEN "kill" ELSE "stop"

\* the tool executions of the last handler call made for a workspace
InvokedFor(key) == {i \in 1..Len(run.invoked) : run.invoked[i].cwd = key}

\* the last handler call sent the dmypy command to the daemon of a workspace
SentTo(key, command) ==
    \E i \in InvokedFor(key) :
        /\ Contains(run.invoked[i].argv, "mypy.dmypy")
        /\ Contains(run.invoked[i].argv, "--status-file")
        /\ run.invoked[i].argv[Len(run.invoked[i].argv)] = command

\* the last handler call ran nothing but the version probe for a workspace
OnlyProbed(key) ==
    \A i \in InvokedFor(key) :
        run.invoked[i].argv[Len(run.invoked[i].argv)] = "--version"

InDaemonMode(key) ==
    key \in DOMAIN MYPY_INFO_TABLE /\ MYPY_INFO_TABLE[key].is_daemon

NotInDaemonMode(key) ==
    key \in DOMAIN MYPY_INFO_TABLE /\ ~MYPY_INFO_TABLE[key].is_daemon

\* C22: on exit every workspace whose tool is in daemon mode is sent dmypy
\* kill, on shutdown dmypy stop, and the other workspaces are sent nothing;
\* no failure at one workspace leaves the handler or keeps a later workspace
\* from its command.
C22_EveryDaemonStopped ==
    IsStopRun =>
        /\ run.result = None
        /\ \A key \in DOMAIN WORKSPACE_SETTINGS.map :
              /\ InDaemonMode(key) => SentTo(key, StopCommand)
              /\ NotInDaemonMode(key) => OnlyProbed(key)

\* _run_dmypy_command was called
DmypyCommandCalled == dmypy_call # None

\* the call was for a workspace whose tool it knew not to be in daemon mode
CalledForNonDaemon ==
    /\ DmypyCommandCalled
    /\ dmypy_call.settings.workspaceFS \in DOMAIN dmypy_call.table
    /\ ~dmypy_call.table[dmypy_call.settings.workspaceFS].is_daemon

\* C23: a call of _run_dmypy_command for a workspace whose tool is not in
\* daemon mode ends with the ValueError of the validation, whose message is
\* logged as an error, and runs no dmypy command: the only execution it may
\* make is the version probe.
C23_NonDaemonRejected ==
    CalledForNonDaemon =>
        /\ dmypy_call.raised = "ValueError"
        /\ Contains(dmypy_call.logged,
                    "dmypy command called in non-daemon context: " \o dmypy_call.command)
        /\ \A i \in 1..Len(dmypy_call.invoked) :
              /\ dmypy_call.invoked[i].argv[Len(dmypy_call.invoked[i].argv)] = "--version"
              /\ ~Contains(dmypy_call.invoked[i].argv, dmypy_call.command)

\* the call finds out by its own probe that the tool is no daemon
C23_Witness ==
    /\ CalledForNonDaemon
    /\ dmypy_call.command = "stop"
    /\ Len(dmypy_call.invoked) = 1
    /\ dmypy_call.raised = "ValueError"

\* the argv runs the module with `-m`
UsesModule(argv, module) ==
    \E j \in 1..(Len(argv) - 1) : argv[j] = "-m" /\ argv[j + 1] = module

\* the module the preferDaemon setting asks for, and the other one
PreferredModule(settings) == IF settings.preferDaemon THEN "mypy.dmypy" ELSE "mypy"
OtherModule(settings) == IF settings.preferDaemon THEN "mypy" ELSE "mypy.dmypy"

\* the settings of the workspace the i-th execution of the last call ran in
InvokedSettings(i) == WORKSPACE_SETTINGS.map[run.invoked[i].cwd]

\* the check run of the last lint run passed the daemon arguments
HasDaemonArgs == Contains(CheckArgv, "--status-file") /\ Contains(CheckArgv, "run")

\* C24: with no tool path configured every execution of the tool for a
\* workspace, version probe or check run, runs module mypy.dmypy when
\* preferDaemon is true and module mypy when it is false, never the other
\* one; a check run has the daemon arguments --status-file and run exactly
\* when the workspace is in daemon mode.
C24_ModuleFollowsPreferDaemon ==
    /\ \A i \in 1..Len(run.invoked) :
          /\ run.invoked[i].cwd \in DOMAIN WORKSPACE_SETTINGS.map
          /\ InvokedSettings(i).path = <<>> =>
                /\ UsesModule(run.invoked[i].argv, PreferredModule(InvokedSettings(i)))
                /\ ~UsesModule(run.invoked[i].argv, OtherModule(InvokedSettings(i)))
                /\ ~Contains(run.invoked[i].argv, OtherModule(InvokedSettings(i)))
    /\ (IsLintRun /\ run.checked) =>
          /\ HasDaemonArgs <=> InDaemonMode(RunSettings.workspaceFS)
          /\ ~HasDaemonArgs =>
                ~(Contains(CheckArgv, "--status-file") \/ Contains(CheckArgv, "run"))

\* a lint run of a preferDaemon workspace probed the version with module
\* mypy.dmypy and then ran the check through the daemon
C24_Witness ==
    /\ IsLintRun /\ run.checked /\ RunSettings.preferDaemon
    /\ Len(run.invoked) = 2
    /\ run.invoked[1].argv[Len(run.invoked[1].argv)] = "--version"
    /\ UsesModule(run.invoked[1].argv, "mypy.dmypy")
    /\ UsesModule(CheckArgv, "mypy.dmypy")
    /\ HasDaemonArgs

\* the document of the last lint run is checked again by this step
CheckedAgain ==
    /\ IsLintRun /\ run.checked
    /\ IsLintRun' /\ run'.checked
    /\ run'.document = run.document

\* C25: no handler after initialize changes WORKSPACE_SETTINGS or
\* GLOBAL_SETTINGS, whatever lint runs, version probes and daemon commands
\* it makes: the path, interpreter and args lists stay as configured, and
\* the argv of a further check run of a document is the argv of the run
\* before it.
C25_SettingsNeverModified ==
    [][/\ Initialized =>
            /\ WORKSPACE_SETTINGS' = WORKSPACE_SETTINGS
            /\ GLOBAL_SETTINGS' = GLOBAL_SETTINGS
       /\ CheckedAgain => CheckArgv' = CheckArgv]_vars

\* a document was checked a further time, and the settings are those the
\* client sent
C25_Witness ==
    /\ run.handler = "didSave" /\ run.checked
    /\ UsesModule(CheckArgv, "mypy.dmypy")
    /\ \E settings \in ClientSettings :
          WORKSPACE_SETTINGS = update_workspace_settings([order |-> <<>>, map |-> EmptyDict],
                                                         settings)

\* get_cwd was called without a document
CalledWithoutDocument == cwd_call # None /\ ~cwd_call.has_document

\* the cwd setting names a variable of the file or ${nearestConfig}
FileDependent(cwd) ==
    \/ cwd.var \in {"${fileDirname}", "${nearestConfig}"}
    \/ \E i \in 1..Len(cwd.dir) :
          \/ StartsWith(cwd.dir[i], "${file")
          \/ StartsWith(cwd.dir[i], "${relativeFile")

\* C26: without a document get_cwd returns a configured cwd that has no
\* variable of the file as it is, and the workspace root when cwd is not
\* configured or has a ${file...}, ${relativeFile...} or ${nearestConfig}
\* variable.
C26_CwdWithoutDocument ==
    CalledWithoutDocument =>
        cwd_call.result =
            IF cwd_call.settings.cwd.var = "" /\ ~FileDependent(cwd_call.settings.cwd)
            THEN cwd_call.settings.cwd.dir
            ELSE cwd_call.settings.workspaceFS

\* get_cwd was called with a document and cwd = ${nearestConfig}
NearestConfigCalled ==
    /\ cwd_call # None /\ cwd_call.has_document
    /\ cwd_call.settings.cwd = CwdNearestConfig

\* the directories from the document's directory up to the workspace root
\* that hold a configuration file
ConfigAbove(workspaceFolder, document) ==
    {d \in ConfigDirs :
        /\ IsPrefix(workspaceFolder, d)
        /\ IsPrefix(d, Parent(PurePath(document.path)))}

\* C27: with cwd = ${nearestConfig} and a document, get_cwd returns the
\* first directory with a pyproject.toml or mypy.ini on the way from the
\* document's directory up to the workspace root, the root included, and the
\* workspace root when there is none or the document is outside of the
\* workspace; it never returns a directory outside of the workspace root.
C27_NearestConfig ==
    NearestConfigCalled =>
        LET root == PurePath(cwd_call.settings.workspaceFS)
            found == ConfigAbove(root, cwd_call.document)
        IN  /\ IsPrefix(root, cwd_call.result)
            /\ found = {} => cwd_call.result = root
            /\ found # {} =>
                  /\ cwd_call.result \in found
                  /\ \A d \in found : Len(d) <= Len(cwd_call.result)

\* the thread has made a call and the call is over
Finished(t) == threads[t].pc = "idle" /\ threads[t].calls > 0

\* the last call of the thread could not change to its directory
ChdirFailed(t) == Finished(t) /\ threads[t].cwd \in Inaccessible

\* C28: when changing to the requested directory fails with an OSError,
\* change_cwd does not raise, its body runs, and the working directory of
\* the process is before, in and after the context what it was at entry.
C28_ChdirFailureTolerated ==
    \A t \in Threads :
        ChdirFailed(t) =>
            /\ threads[t].raised = NoStr
            /\ threads[t].body_ran
            /\ threads[t].body_cwd = threads[t].entry_cwd
            /\ threads[t].exit_cwd = threads[t].entry_cwd

\* C29: when a call of run_module or run_api is over, its body having
\* returned or raised, the working directory of the process is SERVER_CWD
\* and CWD_LOCK is released.
C29_RestoredOnEveryExit ==
    \A t \in Threads :
        Finished(t) =>
            /\ threads[t].exit_cwd = SERVER_CWD
            /\ CWD_LOCK # t

\* the thread is between `with CWD_LOCK` entered and left
InCritical(t) ==
    threads[t].pc \in {"locked", "chdir", "run_same", "run_changed", "restore", "unlock"}

\* C30: at most one call of run_module or run_api is between the entry and
\* the exit of `with CWD_LOCK`, so between its change of the working
\* directory and its restore; only that call changes the working directory,
\* its body runs in the directory it asked for, and a thread that waits for
\* the lock gets it.
C30_OneInvocationAtATime ==
    /\ [](\A t1, t2 \in Threads : (InCritical(t1) /\ InCritical(t2)) => t1 = t2)
    /\ [](\A t \in Threads : InCritical(t) => CWD_LOCK = t)
    /\ [](\A t \in Threads :
            threads[t].pc \in {"run_same", "run_changed"}
                => is_same_path(os_cwd, threads[t].cwd))
    /\ [][os_cwd' # os_cwd =>
            \E t \in Threads : /\ CWD_LOCK = t /\ InCritical(t)
                               /\ threads'[t] # threads[t]
                               /\ \A u \in Threads \ {t} : threads'[u] = threads[u]]_vars
    /\ \A t \in Threads : (threads[t].pc = "waiting") ~> (CWD_LOCK = t)

\* a thread waits for the lock while the other one runs its body in the
\* directory it changed to
C30_Witness ==
    \E t, u \in Threads :
        /\ threads[t].pc = "waiting"
        /\ threads[u].pc = "run_changed" /\ CWD_LOCK = u
        /\ threads[t].cwd # threads[u].cwd
        /\ os_cwd = threads[u].cwd

Probed(invoked, key) ==
    \E i \in 1..Len(invoked) :
        /\ invoked[i].cwd = key
        /\ invoked[i].argv[Len(invoked[i].argv)] = "--version"

\* the step is a call of _run_dmypy_command
DmypyCommandStep == run' = run /\ dmypy_call' # None

\* what a call of get_mypy_info for a workspace with an entry in the table
\* does: it executes nothing and goes by the recorded daemon flag
AnsweredFromTable(key) ==
    /\ ~Probed(dmypy_call'.invoked, key)
    /\ dmypy_call'.raised # "AttributeError"
    /\ MYPY_INFO_TABLE[key].is_daemon
           <=> ~Contains(dmypy_call'.logged,
                         "dmypy command called in non-daemon context: "
                             \o dmypy_call'.command)

\* what a call of get_mypy_info for a workspace without an entry does: it
\* runs the probe, and stores an entry unless the probe failed, in which
\* case it returns None and the table is as before
AnsweredByProbe(key) ==
    /\ Probed(dmypy_call'.invoked, key)
    /\ key \in DOMAIN MYPY_INFO_TABLE' <=> dmypy_call'.raised # "AttributeError"
    /\ dmypy_call'.raised = "AttributeError" => MYPY_INFO_TABLE' = MYPY_INFO_TABLE

\* C32: an entry of MYPY_INFO_TABLE, once stored, is never changed or
\* removed, and no handler executes the version probe for its workspace
\* again: get_mypy_info answers from the entry. A probe that failed stores
\* nothing, so the next call for the workspace runs the probe again.
C32_VersionCached ==
    [][/\ \A key \in DOMAIN MYPY_INFO_TABLE :
             /\ key \in DOMAIN MYPY_INFO_TABLE'
             /\ MYPY_INFO_TABLE'[key] = MYPY_INFO_TABLE[key]
             /\ run' # run => ~Probed(run'.invoked, key)
       /\ DmypyCommandStep =>
             IF dmypy_call'.settings.workspaceFS \in DOMAIN MYPY_INFO_TABLE
             THEN AnsweredFromTable(dmypy_call'.settings.workspaceFS)
             ELSE AnsweredByProbe(dmypy_call'.settings.workspaceFS)]_vars

\* a dmypy command was run for a workspace without the probe: the entry of
\* an earlier call answered
C32_Witness ==
    /\ DmypyCommandCalled
    /\ dmypy_call.raised = NoStr
    /\ Len(dmypy_call.invoked) = 1
    /\ ~Probed(dmypy_call.invoked, dmypy_call.settings.workspaceFS)
    /\ dmypy_call.table[dmypy_call.settings.workspaceFS].is_daemon

\* a probe failed and the table has no entry for the workspace
C32_FailedProbe ==
    /\ DmypyCommandCalled
    /\ dmypy_call.raised = "AttributeError"
    /\ Probed(dmypy_call.invoked, dmypy_call.settings.workspaceFS)
    /\ dmypy_call.settings.workspaceFS \notin DOMAIN MYPY_INFO_TABLE

\* the executions of the last handler and of the last _run_dmypy_command
\* call that carry a status file
DaemonInvocations ==
    {inv \in {run.invoked[i] : i \in 1..Len(run.invoked)}
             \cup (IF DmypyCommandCalled
                   THEN {dmypy_call.invoked[i] : i \in 1..Len(dmypy_call.invoked)}
                   ELSE {}) :
        Contains(inv.argv, "--status-file")}

\* the argument that follows --status-file
StatusFileOf(argv) ==
    argv[(CHOOSE j \in 1..(Len(argv) - 1) : argv[j] = "--status-file") + 1]

\* the status file configured for a workspace, NoStr when there is none
Override(key) ==
    IF key \in DOMAIN WORKSPACE_SETTINGS.map
    THEN WORKSPACE_SETTINGS.map[key].daemonStatusFile ELSE NoStr

\* C33: the status file of a workspace is chosen when the first dmypy
\* command is built for it, the configured daemonStatusFile if there is one
\* and a newly generated path otherwise, and stays: the entry of DMYPY_ARGS
\* never changes, every dmypy command run for the workspace carries the
\* file of the entry, and two workspaces without a configured file have
\* different files.
C33_StatusFileStable ==
    [][/\ \A key \in DOMAIN DMYPY_ARGS :
             /\ key \in DOMAIN DMYPY_ARGS'
             /\ DMYPY_ARGS'[key] = DMYPY_ARGS[key]
       /\ \A key \in DOMAIN DMYPY_ARGS' :
             /\ DMYPY_ARGS'[key][1] = "--status-file"
             /\ Override(key)' # NoStr => DMYPY_ARGS'[key][2] = Override(key)'
             /\ \A other \in DOMAIN DMYPY_ARGS' :
                   (other # key /\ Override(key)' = NoStr /\ Override(other)' = NoStr)
                       => DMYPY_ARGS'[other][2] # DMYPY_ARGS'[key][2]
       /\ \A inv \in DaemonInvocations' :
             /\ normalize_path(inv.cwd) \in DOMAIN DMYPY_ARGS'
             /\ StatusFileOf(inv.argv) = DMYPY_ARGS'[normalize_path(inv.cwd)][2]]_vars

\* dmypy commands were run for two workspaces, one more than once, and a
\* later command for the first carries its status file
C33_Witness ==
    /\ Cardinality(DOMAIN DMYPY_ARGS) = 2
    /\ \A key \in DOMAIN DMYPY_ARGS : Override(key) = NoStr
    /\ DmypyCommandCalled /\ dmypy_call.command = "run"
    /\ \E inv \in DaemonInvocations : inv.argv[Len(inv.argv)] = "kill"
    /\ \E inv \in DaemonInvocations :
          /\ inv.argv[Len(inv.argv)] = "--"
          /\ StatusFileOf(inv.argv) = DMYPY_ARGS[normalize_path(inv.cwd)][2]

\* a workspace with a configured status file was sent a dmypy command
C33_Configured ==
    \E inv \in DaemonInvocations :
        /\ Override(normalize_path(inv.cwd)) # NoStr
        /\ StatusFileOf(inv.argv) = Override(normalize_path(inv.cwd))

\* the groups of the i-th line as the loop reads them: the quotes removed
\* for the line it works on, the text as printed for the line it looks
\* ahead to
LineData(i) == get_group_dict(Unquote(tool_output[i]))

\* the i-th line is a note the note before it waited for
JoinsNote(i) ==
    /\ i > 1
    /\ tool_output[i - 1].match /\ tool_output[i].match
    /\ LineData(i - 1).type = "note" /\ LineData(i).type = "note"
    /\ get_group_dict(tool_output[i]).location = LineData(i - 1).location

\* the i-th line is the first line of a diagnostic
FirstLine(i) == tool_output[i].match /\ ~JoinsNote(i)

\* the last line of the diagnostic of the i-th line
RECURSIVE LastLine(_)
LastLine(i) == IF i < Len(tool_output) /\ JoinsNote(i + 1) THEN LastLine(i + 1) ELSE i

\* the diagnostic whose first line is the i-th line is one of notes of
\* which one starts with the see-also prefix
HasSeeLink(i) ==
    /\ LineData(i).type = "note"
    /\ \E k \in i..LastLine(i) : StartsWith(LineData(k).message, SEE_HREF_PREFIX)

\* the code the diagnostic whose first line is the i-th line is to have
GroupCode(i) ==
    IF LineData(LastLine(i)).code # NoStr THEN LineData(LastLine(i)).code
    ELSE IF HasSeeLink(i) THEN NOTE_CODE
    ELSE NoStr

RECURSIVE ExpectedCodes(_, _)
ExpectedCodes(i, path) ==
    IF i > Len(tool_output) THEN <<>>
    ELSE (IF FirstLine(i) /\ absolute_path(LineData(i).filepath) = path
          THEN <<GroupCode(i)>> ELSE <<>>)
         \o ExpectedCodes(i + 1, path)

ParsedCodes(path) ==
    [k \in 1..Len(DiagnosticsOf(parsed, path)) |-> DiagnosticsOf(parsed, path)[k].code]

\* C34: the code of a diagnostic is the code of its line (for notes taken
\* together, of the last of them) when the line has one; without one it is
\* "note" exactly when the diagnostic is one of notes of which one carries
\* a see-also link, and unset otherwise. So no error or warning without a
\* code has the code "note", whatever lines came before it.
C34_CodeOfDiagnostic ==
    \A path \in Keys(parsed) : ParsedCodes(path) = ExpectedCodes(1, path)

\* a see-also note, then a warning without a code at the same location: the
\* note has the code "note", the warning none
C34_Witness ==
    /\ tool_output = <<LineA, SeeA1, LineWarn>>
    /\ ParsedCodes(PathA) = <<"misc", NOTE_CODE, NoStr>>

\* the diagnostics of the parse, of all files
AllParsed ==
    UNION {{DiagnosticsOf(parsed, path)[k] : k \in 1..Len(DiagnosticsOf(parsed, path))} :
              path \in Keys(parsed)}

\* the diagnostic has the code of its line, not the synthetic one
HasExplicitCode(diagnostic) == diagnostic.code \notin {NoStr, NOTE_CODE}

\* C35: every diagnostic built from a line with a [code], be the line an
\* error, a warning or a note, has the link ERROR_CODE_BASE_URL followed by
\* the code.
C35_CodeLink ==
    \A diagnostic \in AllParsed :
        HasExplicitCode(diagnostic)
            => diagnostic.code_description = ERROR_CODE_BASE_URL \o diagnostic.code

\* the text has a note with a code
CodedNotePrinted ==
    \E i \in 1..Len(tool_output) :
        /\ tool_output[i].match
        /\ tool_output[i].type = "note" /\ tool_output[i].code # NoStr

\* the link of C35 is there when no note of the text has a code
C35_CodeLinkOfErrors == ~CodedNotePrinted => C35_CodeLink

SettingsAsked == settings_call # None

\* the registered workspace roots above the document of the call
RootsAbove ==
    {key \in DOMAIN WORKSPACE_SETTINGS.map :
        /\ IsPrefix(key, Resolve(settings_call.document.path))
        /\ key # Resolve(settings_call.document.path)}

\* the innermost of them
NearestRoot == CHOOSE key \in RootsAbove : \A other \in RootsAbove : Len(other) <= Len(key)

\* C36: the settings of a document are those of the nearest registered
\* workspace root above its path; a document under no registered workspace
\* gets a record made of the global defaults and rooted at the directory of
\* the document, and WORKSPACE_SETTINGS stays as it is.
C36_NearestWorkspace ==
    SettingsAsked =>
        /\ WORKSPACE_SETTINGS = settings_call.stored
        /\ IF RootsAbove # {}
           THEN settings_call.settings = WORKSPACE_SETTINGS.map[NearestRoot]
           ELSE settings_call.settings
                    = AdHocSettings(Resolve(Parent(PurePath(settings_call.document.path))),
                                    GLOBAL_SETTINGS)

\* the file system root is a registered workspace
RootRegistered == FsRoot \in DOMAIN WORKSPACE_SETTINGS.map

\* the statement of C36 for the servers whose folders are not the file
\* system root
C36_BelowTheRoot == ~RootRegistered => C36_NearestWorkspace

\* a document of the inner of two nested folders got the settings of the
\* inner one
C36_Nested ==
    /\ SettingsAsked
    /\ RootsAbove = {Root1, PkgDir}
    /\ settings_call.settings.workspaceFS = PkgDir

\* the diagnostics are those the parser built for a file that is the
\* document
OfTheDocument(diagnostics) ==
    \E k \in 1..Len(run.parse_results) :
        /\ is_same_path(run.parse_results[k].path, run.document.path)
        /\ run.parse_results[k].diagnostics = diagnostics

\* C37: in file scope a didOpen or didSave lint run that ends without an
\* exception sends exactly one publishDiagnostics, for the uri of the
\* document: the diagnostics of the document, which are not empty, or an
\* empty array.
C37_OnePublishPerRun ==
    (IsLintRun /\ RunScope = "file" /\ ~run.caught) =>
        /\ Len(run.publishes) = 1
        /\ run.publishes[1].uri = run.document.uri
        /\ \/ run.publishes[1].diagnostics = <<>>
           \/ OfTheDocument(run.publishes[1].diagnostics)

\* the tool reported the document and another file, and the one
\* notification of the run holds the diagnostics of the document
C37_Witness ==
    /\ IsLintRun /\ RunScope = "file" /\ ToolReturned
    /\ Cardinality(OutputFiles) >= 2
    /\ Len(run.publishes) = 1
    /\ run.publishes[1].diagnostics # <<>>
    /\ OfTheDocument(run.publishes[1].diagnostics)

\* C38: get_cwd with cwd = ${nearestConfig} returns for every workspace
\* root and every document, the file system root as workspace root with no
\* configuration file on the way up included.
C38_NearestConfigReturns ==
    NearestConfigCalled => cwd_call.result # NeverReturns

\* the workspace root of the call is the file system root
CalledForRoot == PurePath(cwd_call.settings.workspaceFS) = FsRoot

\* get_cwd returns when the workspace root is not the file system root
C38_ReturnsBelowTheRoot ==
    (NearestConfigCalled /\ ~CalledForRoot) => cwd_call.result # NeverReturns

\* the tool printed every line in single quotes
PrintedInQuotes == tool_output # <<>> /\ AllQuoted(tool_output)

\* C39: a text whose lines are all wrapped in single quotes is parsed to
\* the diagnostics of the text without the quotes, consecutive notes of one
\* location taken together in both.
C39_QuotesMakeNoDifference ==
    PrintedInQuotes =>
        parsed = parse_output_using_regex(Plain(tool_output), severity_setting)

\* two notes of one location follow each other in the text
NotesInARow ==
    \E i \in 2..Len(tool_output) :
        /\ tool_output[i - 1].match /\ tool_output[i].match
        /\ tool_output[i - 1].type = "note" /\ tool_output[i].type = "note"
        /\ LineData(i - 1).location = LineData(i).location

\* the statement of C39 for the texts without two such notes
C39_SameWithoutNotesInARow ==
    (PrintedInQuotes /\ ~NotesInARow) =>
        parsed = parse_output_using_regex(Plain(tool_output), severity_setting)

====
